---- MODULE Spec2Model ----
(***************************************************************************)
(* ScrollSnap: the scroll capture and compositing engine of the background *)
(* service worker (background.js) and the selection UI of the content      *)
(* script (content.js), with the popup's capture buttons and the history   *)
(* of the image editor.                                                    *)
(*                                                                         *)
(* Lengths are CSS pixels (integers).  A device pixel ratio is a pair      *)
(* <<numerator, denominator>>, so that Math.round and Math.ceil of a       *)
(* product with it are computed exactly.                                   *)
(***************************************************************************)
EXTENDS Integers, Sequences, FiniteSets, TLC

VARIABLES
  crop,       \* the cropImage call: its arguments and, once run, the rectangle read
  pages,      \* per tab: the document's scroll offset, element visibility, page globals
  ops,        \* per async operation of the service worker: its position and locals
  batch,      \* batchCaptureAllTabs: its position, tab index and results
  sinceShot,  \* ms of delay() awaited since the last captureVisibleTab call (-1: no call yet)
  minGap,     \* the least sinceShot seen at a captureVisibleTab call that had a predecessor
  ui,         \* the content script's selection state
  requests,   \* capture requests sent to handleMessage and not yet taken up
  popup,      \* the popup's script: its state object, buttons and pending request
  editor      \* an ImageEditor: its history and what its canvas shows

vars == <<crop, pages, ops, batch, sinceShot, minGap, ui, requests, popup, editor>>

\* The popup as it is opened: state.isCapturing false, the capture buttons enabled, the
\* main menu shown.  pc is the await startCapture is at; for the properties only,
\* inFlight counts the requests sent and not yet settled, `sent` the requests sent and
\* `captures` the capture requests among them; `ignored` tells that startCapture has
\* been called with isCapturing set.
NoPopup ==
  [open |-> TRUE, isCapturing |-> FALSE, disabled |-> FALSE, pc |-> "idle",
   mode |-> "none", progress |-> FALSE, panel |-> "main", errorMessage |-> "none",
   inFlight |-> 0, sent |-> 0, captures |-> 0, ignored |-> FALSE]

\* new ImageEditor(options): the constructor's state.  What the canvas shows is the
\* number of changes made to the loaded image to get it, and an entry of the history
\* is what the canvas showed when it was saved.  For the properties only, `last` is the
\* last operation on the history and `discarded` tells that a save has dropped entries
\* that could have been redone.
NoEditor ==
  [initialized |-> FALSE, history |-> <<>>, historyIndex |-> -1,
   currentTemplate |-> "none", canvas |-> 0, last |-> "none", discarded |-> FALSE]

-----------------------------------------------------------------------------
(* Numbers *)

\* devicePixelRatio values: 1, 1.25, 1.5, 2
Dprs == {<<1, 1>>, <<5, 4>>, <<3, 2>>, <<2, 1>>}

Min(a, b) == IF a < b THEN a ELSE b

Max(a, b) == IF a > b THEN a ELSE b

\* Math.ceil(n / d), d > 0
CeilDiv(n, d) == -((-n) \div d)

\* Math.round(n / d), d > 0: halves round towards +infinity
RoundDiv(n, d) == (2 * n + d) \div (2 * d)

\* Math.ceil(v * dpr)
CeilDpr(v, dpr) == CeilDiv(v * dpr[1], dpr[2])

\* Math.round(v * dpr)
RoundDpr(v, dpr) == RoundDiv(v * dpr[1], dpr[2])

-----------------------------------------------------------------------------
(* cropImage(dataUrl, rect, format, quality, dpr): the rectangle of the     *)
(* source image that drawImage finally reads.                              *)

CropScale(rect, dpr) ==
  [x |-> RoundDpr(rect.x, dpr), y |-> RoundDpr(rect.y, dpr),
   w |-> RoundDpr(rect.width, dpr), h |-> RoundDpr(rect.height, dpr)]

\* if (srcX >= img.width) srcX = Math.max(0, img.width - srcW); same for Y
CropOrigin(r, img) ==
  [r EXCEPT !.x = IF r.x >= img.width THEN Max(0, img.width - r.w) ELSE r.x,
            !.y = IF r.y >= img.height THEN Max(0, img.height - r.h) ELSE r.y]

\* if (srcX < 0) { srcW += srcX; srcX = 0 }; same for Y
CropNegative(r) ==
  [x |-> IF r.x < 0 THEN 0 ELSE r.x,
   y |-> IF r.y < 0 THEN 0 ELSE r.y,
   w |-> IF r.x < 0 THEN r.w + r.x ELSE r.w,
   h |-> IF r.y < 0 THEN r.h + r.y ELSE r.h]

\* if (srcX + srcW > img.width) srcW = img.width - srcX; same for Y
CropFit(r, img) ==
  [r EXCEPT !.w = IF r.x + r.w > img.width THEN img.width - r.x ELSE r.w,
            !.h = IF r.y + r.h > img.height THEN img.height - r.y ELSE r.h]

\* A clamp that forgets the 1px floor of the size.
CropFinalNoFloor(r, img) ==
  [x |-> Max(0, Min(r.x, img.width - 1)),
   y |-> Max(0, Min(r.y, img.height - 1)),
   w |-> r.w,
   h |-> r.h]

\* srcW = Math.max(1, srcW); srcX = Math.max(0, Math.min(srcX, img.width - 1)); ...
CropFinal(r, img) ==
  [x |-> Max(0, Min(r.x, img.width - 1)),
   y |-> Max(0, Min(r.y, img.height - 1)),
   w |-> Max(1, r.w),
   h |-> Max(1, r.h)]

cropImage(rect, img, dpr) ==
  CropFinal(CropFit(CropNegative(CropOrigin(CropScale(rect, dpr), img)), img), img)

-----------------------------------------------------------------------------
(* The page of a tab, as the scripts injected by the service worker see it. *)

Tabs == {"t1", "t2"}

\* The page's fixed/sticky positioned elements.
Elems == {"header", "sidebar"}

\* el.style.visibility
Visibilities == {"", "hidden"}

\* window.__scrollCaptureHiddenElements when it is not set
NoHiddenList == [set |-> FALSE, orig |-> [e \in Elems |-> ""]]

\* window.scrollTo({top: y}): the browser clamps the offset to the scrollable range
ClampScroll(p, y) == Max(0, Min(y, Max(0, p.scrollHeight - p.viewportHeight)))

\* hideFixedElements: a fresh list of every fixed/sticky element with its inline
\* visibility, then visibility: hidden on each
hideFixedElements(p) ==
  [p EXCEPT !.hiddenList = [set |-> TRUE, orig |-> p.vis],
            !.vis = [e \in Elems |-> "hidden"]]

\* restoreFixedElements: nothing without a list; else each element gets its saved
\* visibility and the list is deleted
restoreFixedElements(p) ==
  IF ~p.hiddenList.set THEN p
  ELSE [p EXCEPT !.vis = p.hiddenList.orig, !.hiddenList = NoHiddenList]

\* hideScrollbar / restoreScrollbar: the injected style element
hideScrollbar(p) == [p EXCEPT !.scrollbarHidden = TRUE]

restoreScrollbar(p) == [p EXCEPT !.scrollbarHidden = FALSE]

\* scrollToPosition(tabId, y)
scrollToPosition(p, y) == [p EXCEPT !.scrollY = ClampScroll(p, y)]

\* The content script's message listener, for the progress indicator: showProgress and
\* updateProgress show it, hideProgress removes it, any other action leaves it
ProgressAfter(msg, was) ==
  CASE msg \in {"showProgress", "updateProgress"} -> "shown"
    [] msg = "hideProgress" -> "none"
    [] OTHER -> was

\* the cases of the switch of the content script's message listener
ListenerActions ==
  {"getScrollInfo", "scrollTo", "startSelection", "cancelSelection", "showProgress",
   "updateProgress", "hideProgress", "showPreview", "showBatchProgress",
   "showBatchResults", "hideBatchProgress"}

\* The message listener on a progress action of the service worker: an action with a
\* case has its effect and is answered {success: true}; any other falls to default
\* and is answered {error: 'Unknown action'}.  For the properties only, `unknown`
\* holds the actions the page has answered so.
onMessage(p, msg) ==
  IF msg \in ListenerActions
  THEN [p EXCEPT !.progress = ProgressAfter(msg, p.progress)]
  ELSE [p EXCEPT !.unknown = @ \cup {msg}]

\* sendMessageToTab(tabId, {action: msg}) for a progress action: delivered when the
\* content script is loaded, dropped otherwise (these actions are not re-injected)
sendProgress(p, msg) ==
  IF p.open /\ p.scriptLoaded
  THEN onMessage(p, msg)
  ELSE p

-----------------------------------------------------------------------------
(* Scroll surfaces: the window and the page's inner scroll containers.      *)

\* The page's candidate containers: "stream" matches '[data-is-streaming]', "main"
\* matches 'main', "panel" is a div that matches none of commonSelectors.
Conts == {"stream", "main", "panel"}

Surfaces == Conts \cup {"window"}

\* the elements the selector loop visits, in the order it visits them
SelectorOrder == <<"stream", "main">>

\* getComputedStyle(el).overflowY
Overflows == {"visible", "auto"}

\* isScrollable(el)
isScrollable(p, c) ==
  /\ p.els[c].overflowY \in {"auto", "scroll"}
  /\ p.els[c].scrollHeight > p.box.clientHeight + 10

\* the scan over 'div, main, section, article': areaRatio > 0.3 && scrollableHeight > 100
ScanQualifies(p, c) ==
  /\ isScrollable(p, c)
  /\ 10 * (p.box.clientWidth * p.box.clientHeight) > 3 * (p.viewportWidth * p.viewportHeight)
  /\ p.els[c].scrollHeight - p.box.clientHeight > 100

\* A search that prefers the best scoring element of the scan to the selectors.
findScrollableContainerScanFirst(p) ==
  IF ScanQualifies(p, "panel") THEN "panel"
  ELSE IF \E k \in DOMAIN SelectorOrder : isScrollable(p, SelectorOrder[k])
  THEN LET k == CHOOSE j \in DOMAIN SelectorOrder :
                  /\ isScrollable(p, SelectorOrder[j])
                  /\ \A i \in DOMAIN SelectorOrder : i < j => ~isScrollable(p, SelectorOrder[i])
       IN SelectorOrder[k]
  ELSE "window"

\* The container search that content.js (detectScrollableContainer) and background.js
\* (findScrollableContainerScript and its inlined copies) both run: the first scrollable
\* element of the selector loop, else the best scoring element of the scan (the page has
\* one element outside the selectors), else none: the window.
findScrollableContainer(p) ==
  IF \E k \in DOMAIN SelectorOrder : isScrollable(p, SelectorOrder[k])
  THEN LET k == CHOOSE j \in DOMAIN SelectorOrder :
                  /\ isScrollable(p, SelectorOrder[j])
                  /\ \A i \in DOMAIN SelectorOrder : i < j => ~isScrollable(p, SelectorOrder[i])
       IN SelectorOrder[k]
  ELSE IF ScanQualifies(p, "panel") THEN "panel" ELSE "window"

Clamp(v, lo, hi) == Max(lo, Min(v, hi))

\* {x: scrollLeft, y: scrollTop} of a surface
SurfaceScroll(p, s) ==
  IF s = "window" THEN [x |-> p.scrollX, y |-> p.scrollY]
  ELSE [x |-> p.els[s].scrollLeft, y |-> p.els[s].scrollTop]

\* A scroll by a distance: surface.scrollBy({top: y, left: x}).
ScrollSurfaceBy(p, s, x, y) ==
  IF s = "window"
  THEN [p EXCEPT !.scrollX = Clamp(@ + x, 0, Max(0, p.scrollWidth - p.viewportWidth)),
                 !.scrollY = ClampScroll(p, @ + y)]
  ELSE [p EXCEPT !.els[s].scrollLeft = Clamp(@ + x, 0, Max(0, p.box.scrollWidth - p.box.clientWidth)),
                 !.els[s].scrollTop =
                    Clamp(@ + y, 0, Max(0, p.els[s].scrollHeight - p.box.clientHeight))]

\* surface.scrollTo({top: y, left: x, behavior: 'instant'}): offsets are clamped to the
\* scrollable range
ScrollSurfaceTo(p, s, x, y) ==
  IF s = "window"
  THEN [p EXCEPT !.scrollX = Clamp(x, 0, Max(0, p.scrollWidth - p.viewportWidth)),
                 !.scrollY = ClampScroll(p, y)]
  ELSE [p EXCEPT !.els[s].scrollLeft = Clamp(x, 0, Max(0, p.box.scrollWidth - p.box.clientWidth)),
                 !.els[s].scrollTop =
                    Clamp(y, 0, Max(0, p.els[s].scrollHeight - p.box.clientHeight))]

\* the surface a scroll or a scroll read of captureScrollSelection reaches:
\* getContainerScrollPosition and scrollContainerTo search the page for the container
\* each time they run; getPageScrollPosition and scrollPageTo use the window
TargetSurface(p, useContainer) ==
  IF useContainer THEN findScrollableContainer(p) ELSE "window"

-----------------------------------------------------------------------------
(* Full-page capture: captureFullPage and captureFullPageForBatch.          *)

\* const totalHeight = Math.ceil(scrollHeight * dpr)
TotalHeight(scrollHeight, dpr) == CeilDpr(scrollHeight, dpr)

\* const totalScrolls = Math.ceil(scrollHeight / viewportHeight)
\* the value of Math.ceil(n / 0) for n > 0: above every counter of an operation
Infinity == 1000000

\* Math.ceil(scrollHeight / viewportHeight).  A viewport height of 0 gives Infinity, or
\* NaN for a scroll height of 0; NaN makes totalScrolls === 1, totalScrolls > 1 and
\* i < totalScrolls false, as 0 does
TotalScrolls(scrollHeight, viewportHeight) ==
  IF viewportHeight = 0
  THEN IF scrollHeight = 0 THEN 0 ELSE Infinity
  ELSE CeilDiv(scrollHeight, viewportHeight)

\* A last tile that always records the whole captured image height.
TileHeightNoTruncation(i, totalScrolls, totalHeight, cvh) == cvh

\* captureHeight of tile i >= 1: the captured image height, and for the last tile
\* the remainder, unless the remainder is not positive
TileHeight(i, totalScrolls, totalHeight, cvh) ==
  IF i = totalScrolls - 1
  THEN IF totalHeight - i * cvh <= 0 THEN cvh ELSE totalHeight - i * cvh
  ELSE cvh

\* A compositor that draws the last of several tiles whole, bottom-aligned.
StitchDrawBottomAligned(shot, count, totalHeight, ih) ==
  IF shot.isLast /\ count > 1
  THEN [dest |-> totalHeight - ih, src |-> 0, rows |-> ih]
  ELSE [dest |-> shot.y, src |-> 0, rows |-> ih]

\* stitchScreenshots: the drawImage call for one entry of screenshots, the images being
\* `ih` rows high: the rows [src, src + rows) of the image go to the canvas rows
\* [dest, dest + rows).  For the last of several tiles these are its bottom `height` rows,
\* placed at totalHeight - height; any other tile is drawn whole at its recorded y.
StitchDraw(shot, count, totalHeight, ih) ==
  IF shot.isLast /\ count > 1
  THEN [dest |-> totalHeight - shot.height, src |-> ih - shot.height, rows |-> shot.height]
  ELSE [dest |-> shot.y, src |-> 0, rows |-> ih]

\* the draw paints canvas row y: y is in its destination and the source row exists
StitchPaints(d, ih, y) ==
  /\ d.dest <= y /\ y < d.dest + d.rows
  /\ 0 <= y - d.dest + d.src /\ y - d.dest + d.src < ih

\* the entries of `order` (indices into screenshots, in drawing order) that paint row y
StitchPainters(screenshots, order, totalHeight, ih, y) ==
  {j \in DOMAIN order :
     StitchPaints(StitchDraw(screenshots[order[j]], Len(screenshots), totalHeight, ih), ih, y)}

\* What canvas row y shows once the screenshots are drawn in `order`, each draw painting
\* over the earlier ones: <<k, r>>, row r of the image of screenshots[k]; <<0, 0>> when
\* no draw paints the row.
StitchRow(screenshots, order, totalHeight, ih, y) ==
  LET js == StitchPainters(screenshots, order, totalHeight, ih, y)
  IN IF js = {} THEN <<0, 0>>
     ELSE LET j == CHOOSE a \in js : \A b \in js : b <= a
              d == StitchDraw(screenshots[order[j]], Len(screenshots), totalHeight, ih)
          IN <<order[j], y - d.dest + d.src>>

\* stitchSelectionScreenshots: the canvas row at which the j-th draw of `order` starts,
\* currentY after the draws before it (heights[k] is the image height of tile k)
RECURSIVE SelCurrentY(_, _, _)
SelCurrentY(heights, order, j) ==
  IF j = 1 THEN 0 ELSE SelCurrentY(heights, order, j - 1) + heights[order[j - 1]]

\* What row y of the canvas of stitchSelectionScreenshots shows once the tiles are drawn
\* in `order`: <<k, r>>, row r of tile k; <<0, 0>> when no draw paints the row.
SelStitchRow(heights, order, y) ==
  LET js == {j \in DOMAIN order :
               /\ SelCurrentY(heights, order, j) <= y
               /\ y < SelCurrentY(heights, order, j) + heights[order[j]]}
  IN IF js = {} THEN <<0, 0>>
     ELSE LET j == CHOOSE a \in js : \A b \in js : b <= a
          IN <<order[j], y - SelCurrentY(heights, order, j)>>

\* Values of the parameters and locals of captureScrollSelection before they are set.
NoRect == [x |-> 0, y |-> 0, width |-> 0, height |-> 0]

Origin == [x |-> 0, y |-> 0]

\* containerInfo = null
NoContainerInfo ==
  [present |-> FALSE, scrollHeight |-> 0, clientHeight |-> 0, clientWidth |-> 0,
   viewportTop |-> 0, viewportLeft |-> 0]

\* currentScroll / initialScroll = null or undefined
NoScroll == [present |-> FALSE, x |-> 0, y |-> 0]

\* The record of one async operation of the service worker: its position (pc), the
\* parameters and locals of the function it runs, and, for the properties only,
\* `surface` (the scroll surface the selection was drawn in), `touched` (the surfaces its
\* scrolls and scroll reads reached), `shots` (its captureVisibleTab calls) and
\* `scrollAtShot` (the offset of `surface` when the single-viewport capture was made),
\* `scrollAtStart` (the offset of `surface` when the operation was started) and
\* `tileScrolls` (the offset of `surface` at each capture call of the multi-tile loop).
IdleOp ==
  [kind |-> "none", tab |-> "t1", pc |-> "idle", showPageProgress |-> FALSE,
   scrollHeight |-> 0, viewportHeight |-> 0, dpr |-> <<1, 1>>, originalScrollY |-> 0,
   captureViewportHeight |-> 0, totalHeight |-> 0, totalScrolls |-> 0, i |-> 0,
   screenshots |-> <<>>, result |-> "none",
   rect |-> NoRect, viewportWidth |-> 0, containerInfo |-> NoContainerInfo,
   initialScroll |-> NoScroll, useContainer |-> FALSE, originalScroll |-> Origin,
   actualScroll |-> Origin, cropX |-> 0, cropY |-> 0, capturedHeight |-> 0,
   crops |-> <<>>, shots |-> 0, shotShown |-> FALSE,
   surface |-> "window", touched |-> {}, scrollAtShot |-> Origin, scrollAtStart |-> Origin,
   tileScrolls |-> <<>>]

Op(o) == ops[o]

Page(o) == pages[ops[o].tab]

At(o, kinds, pc) == ops[o].kind \in kinds /\ ops[o].pc = pc

FullKinds == {"full", "fullBatch"}

\* the page displays the element #scroll-capture-progress
IndicatorShown(p) == p.open /\ p.progress = "shown"

\* the frame: what an action of the service worker leaves alone
BgFrame == UNCHANGED <<crop, popup, editor, ui, requests>>

Goto(o, pc) == ops' = [ops EXCEPT ![o].pc = pc]

Return(o, result) == ops' = [ops EXCEPT ![o].pc = "done", ![o].result = result]

SetPage(o, p) == pages' = [pages EXCEPT ![ops[o].tab] = p]

\* if (showPageProgress) await sendMessageToTab(...): the position after `pc`
Skip(o, pcIfProgress, pcElse) == IF ops[o].showPageProgress THEN pcIfProgress ELSE pcElse

\* captureFullPage(tabId, ...) is entered: chrome.tabs.get and isRestrictedPage
FP_Enter(o) ==
  /\ At(o, FullKinds, "enter")
  /\ IF ~Page(o).open THEN Goto(o, "catchRestoreFixed")
     ELSE IF Page(o).restricted THEN Return(o, "RESTRICTED_PAGE")
     ELSE Goto(o, "getScrollInfo")
  /\ UNCHANGED <<pages, batch, sinceShot, minGap>> /\ BgFrame

\* getScrollInfo(tabId) of the service worker: the object its injected function returns
getScrollInfo(p) ==
  [scrollHeight |-> Max(p.metrics.bodyScrollHeight, p.metrics.htmlScrollHeight),
   viewportHeight |-> p.viewportHeight,
   currentScrollY |-> p.scrollY,
   devicePixelRatio |-> p.dpr]

\* A measurement whose failure is thrown to the catch block.
FP_GetScrollInfoThrows(o) ==
  /\ At(o, FullKinds, "getScrollInfo")
  /\ IF ~Page(o).open THEN Goto(o, "catchRestoreFixed")
     ELSE LET scrollInfo == getScrollInfo(Page(o))
          IN ops' = [ops EXCEPT ![o].pc = "hideScrollbar",
                                ![o].scrollHeight = scrollInfo.scrollHeight,
                                ![o].viewportHeight = scrollInfo.viewportHeight,
                                ![o].dpr = scrollInfo.devicePixelRatio,
                                ![o].originalScrollY = scrollInfo.currentScrollY]
  /\ UNCHANGED <<pages, batch, sinceShot, minGap>> /\ BgFrame

\* getScrollInfo; originalScrollY = scrollInfo.currentScrollY
FP_GetScrollInfo(o) ==
  /\ At(o, FullKinds, "getScrollInfo")
  /\ IF ~Page(o).open THEN Return(o, "CANNOT_GET_SCROLL_INFO")
     ELSE LET scrollInfo == getScrollInfo(Page(o))
          IN ops' = [ops EXCEPT ![o].pc = "hideScrollbar",
                                ![o].scrollHeight = scrollInfo.scrollHeight,
                                ![o].viewportHeight = scrollInfo.viewportHeight,
                                ![o].dpr = scrollInfo.devicePixelRatio,
                                ![o].originalScrollY = scrollInfo.currentScrollY]
  /\ UNCHANGED <<pages, batch, sinceShot, minGap>> /\ BgFrame

\* chrome.scripting.executeScript in the tab: the page becomes q and the code goes on
\* at `next`; with the tab gone the call throws and the catch block is next
RunScript(o, next, q) ==
  IF Page(o).open
  THEN Goto(o, next) /\ SetPage(o, q)
  ELSE Goto(o, "catchRestoreFixed") /\ UNCHANGED pages

\* await delay(ms): the time since the last capture call grows by ms
Delayed(ms) == sinceShot' = IF sinceShot < 0 THEN sinceShot ELSE Min(sinceShot + ms, 600)

\* await hideScrollbar(tabId)
FP_HideScrollbar(o) ==
  /\ At(o, FullKinds, "hideScrollbar")
  /\ RunScript(o, Skip(o, "showProgress0", "scrollTop"), hideScrollbar(Page(o)))
  /\ UNCHANGED <<batch, sinceShot, minGap>> /\ BgFrame

\* await scrollToPosition(tabId, 0)
FP_ScrollTop(o) ==
  /\ At(o, FullKinds, "scrollTop")
  /\ RunScript(o, "delay300", scrollToPosition(Page(o), 0))
  /\ UNCHANGED <<batch, sinceShot, minGap>> /\ BgFrame

\* await delay(300)
FP_Delay300(o) ==
  /\ At(o, FullKinds, "delay300")
  /\ Goto(o, Skip(o, "hideProgress1", "captureFirst"))
  /\ Delayed(300)
  /\ UNCHANGED <<pages, batch, minGap>> /\ BgFrame

\* chrome.tabs.captureVisibleTab is called: the clock of the rate limit
Shot ==
  /\ sinceShot' = 0
  /\ minGap' = IF sinceShot < 0 THEN minGap ELSE Min(minGap, sinceShot)

\* A capture call that is made again when it rejects.
FP_CaptureRetried(o) ==
  /\ \/ At(o, FullKinds, "captureFirst")
     \/ At(o, FullKinds, "captureTile")
  /\ ops' = [ops EXCEPT ![o].shots = @ + 1]
  /\ Shot
  /\ UNCHANGED <<pages, batch>> /\ BgFrame

\* captureVisibleTab rejects (rate limit, tab not capturable): the catch block is next
FP_CaptureFails(o) ==
  /\ \/ At(o, FullKinds, "captureFirst")
     \/ At(o, FullKinds, "captureTile")
  /\ ops' = [ops EXCEPT ![o].shots = @ + 1, ![o].pc = "catchRestoreFixed"]
  /\ Shot
  /\ UNCHANGED <<pages, batch>> /\ BgFrame

\* where the code goes once the first tile is recorded
AfterFirst(totalScrolls) == IF totalScrolls > 1 THEN "hideFixed" ELSE "restoreScrollbar"

\* where the code goes at the end of the loop body, i being the next index
LoopPc(i, totalScrolls) == IF i < totalScrolls THEN "scrollTile" ELSE "restoreFixed"

\* the first captureVisibleTab, getImageDimensions, and the first entry of screenshots
FP_CaptureFirst(o) ==
  /\ At(o, FullKinds, "captureFirst")
  /\ LET cvh == Page(o).imageHeight
         th == TotalHeight(Op(o).scrollHeight, Op(o).dpr)
         n == TotalScrolls(Op(o).scrollHeight, Op(o).viewportHeight)
     IN ops' = [ops EXCEPT
          ![o].captureViewportHeight = cvh,
          ![o].totalHeight = th,
          ![o].totalScrolls = n,
          ![o].screenshots = <<[y |-> 0, height |-> cvh, isLast |-> (n = 1),
                                fixedShown |-> \E e \in Elems : Page(o).vis[e] # "hidden",
                                scrollY |-> Page(o).scrollY]>>,
          ![o].i = 1,
          ![o].shots = @ + 1, ![o].shotShown = @ \/ IndicatorShown(Page(o)),
          ![o].pc = Skip(o, "showProgress1", AfterFirst(n))]
  /\ Shot
  /\ UNCHANGED <<pages, batch>> /\ BgFrame

\* if (totalScrolls > 1) await hideFixedElements(tabId)
FP_HideFixed(o) ==
  /\ At(o, FullKinds, "hideFixed")
  /\ RunScript(o, "scrollTile", hideFixedElements(Page(o)))
  /\ UNCHANGED <<batch, sinceShot, minGap>> /\ BgFrame

\* await scrollToPosition(tabId, i * viewportHeight)
FP_ScrollTile(o) ==
  /\ At(o, FullKinds, "scrollTile")
  /\ RunScript(o, "delay550", scrollToPosition(Page(o), Op(o).i * Op(o).viewportHeight))
  /\ UNCHANGED <<batch, sinceShot, minGap>> /\ BgFrame

\* await delay(550)
FP_Delay550(o) ==
  /\ At(o, FullKinds, "delay550")
  /\ Goto(o, Skip(o, "hideProgressT", "captureTile"))
  /\ Delayed(550)
  /\ UNCHANGED <<pages, batch, minGap>> /\ BgFrame

\* captureVisibleTab of tile i and screenshots.push
FP_CaptureTile(o) ==
  /\ At(o, FullKinds, "captureTile")
  /\ LET i == Op(o).i
         n == Op(o).totalScrolls
         cvh == Op(o).captureViewportHeight
     IN ops' = [ops EXCEPT
          ![o].screenshots = Append(@,
             [y |-> i * cvh, height |-> TileHeight(i, n, Op(o).totalHeight, cvh),
              isLast |-> (i = n - 1),
              fixedShown |-> \E e \in Elems : Page(o).vis[e] # "hidden",
              scrollY |-> Page(o).scrollY]),
          ![o].i = i + 1,
          ![o].shots = @ + 1, ![o].shotShown = @ \/ IndicatorShown(Page(o)),
          ![o].pc = Skip(o, "showProgressT", LoopPc(i + 1, n))]
  /\ Shot
  /\ UNCHANGED <<pages, batch>> /\ BgFrame

\* if (totalScrolls > 1) await restoreFixedElements(tabId)
FP_RestoreFixed(o) ==
  /\ At(o, FullKinds, "restoreFixed")
  /\ RunScript(o, "restoreScrollbar", restoreFixedElements(Page(o)))
  /\ UNCHANGED <<batch, sinceShot, minGap>> /\ BgFrame

\* await restoreScrollbar(tabId)
FP_RestoreScrollbar(o) ==
  /\ At(o, FullKinds, "restoreScrollbar")
  /\ RunScript(o, "restoreScroll", restoreScrollbar(Page(o)))
  /\ UNCHANGED <<batch, sinceShot, minGap>> /\ BgFrame

\* await scrollToPosition(tabId, originalScrollY)
RestoreScrollTarget(o) == Op(o).originalScrollY

FP_RestoreScroll(o) ==
  /\ At(o, FullKinds, "restoreScroll")
  /\ RunScript(o, Skip(o, "hideProgressEnd", "stitch"),
               scrollToPosition(Page(o), RestoreScrollTarget(o)))
  /\ UNCHANGED <<batch, sinceShot, minGap>> /\ BgFrame

\* stitchScreenshots and return {success: true, ...}
FP_Stitch(o) ==
  /\ At(o, FullKinds, "stitch")
  /\ Return(o, "success")
  /\ UNCHANGED <<pages, batch, sinceShot, minGap>> /\ BgFrame

\* the if (showPageProgress) await sendMessageToTab(...) steps: message and next position
ProgressSteps(o) ==
  [showProgress0 |-> <<"showProgress", "scrollTop">>,
   hideProgress1 |-> <<"hideProgress", "captureFirst">>,
   showProgress1 |-> <<"showProgress", "updateProgress1">>,
   updateProgress1 |-> <<"updateProgress", AfterFirst(Op(o).totalScrolls)>>,
   hideProgressT |-> <<"hideProgress", "captureTile">>,
   showProgressT |-> <<"showProgress", "updateProgressT">>,
   updateProgressT |-> <<"updateProgress", LoopPc(Op(o).i, Op(o).totalScrolls)>>,
   hideProgressEnd |-> <<"hideProgress", "stitch">>]

\* A progress message whose failed delivery is thrown to the catch block.
FP_SendProgressOrThrow(o) ==
  /\ Op(o).kind \in FullKinds
  /\ Op(o).pc \in DOMAIN ProgressSteps(o)
  /\ LET step == ProgressSteps(o)[Op(o).pc]
     IN /\ SetPage(o, sendProgress(Page(o), step[1]))
        /\ Goto(o, IF Page(o).open /\ Page(o).scriptLoaded THEN step[2]
                   ELSE "catchRestoreFixed")
  /\ UNCHANGED <<batch, sinceShot, minGap>> /\ BgFrame

FP_SendProgress(o) ==
  /\ Op(o).kind \in FullKinds
  /\ Op(o).pc \in DOMAIN ProgressSteps(o)
  /\ LET step == ProgressSteps(o)[Op(o).pc]
     IN /\ SetPage(o, sendProgress(Page(o), step[1]))
        /\ Goto(o, step[2])
  /\ UNCHANGED <<batch, sinceShot, minGap>> /\ BgFrame

\* catch (error) { try { await restoreFixedElements(tabId); await restoreScrollbar(tabId);
\*                       if (showPageProgress) await sendMessageToTab(hideProgress) }
\*                 catch (e) {} return {success: false, ...} }
\* A script that throws inside the inner try ends the cleanup.
RunCatchScript(o, next, q) ==
  IF Page(o).open
  THEN /\ SetPage(o, q)
       /\ IF next = "done" THEN Return(o, "failed") ELSE Goto(o, next)
  ELSE Return(o, "failed") /\ UNCHANGED pages

FP_CatchRestoreFixed(o) ==
  /\ At(o, FullKinds, "catchRestoreFixed")
  /\ RunCatchScript(o, "catchRestoreScrollbar", restoreFixedElements(Page(o)))
  /\ UNCHANGED <<batch, sinceShot, minGap>> /\ BgFrame

FP_CatchRestoreScrollbar(o) ==
  /\ At(o, FullKinds, "catchRestoreScrollbar")
  /\ RunCatchScript(o, Skip(o, "catchHideProgress", "done"), restoreScrollbar(Page(o)))
  /\ UNCHANGED <<batch, sinceShot, minGap>> /\ BgFrame

FP_CatchHideProgress(o) ==
  /\ At(o, FullKinds, "catchHideProgress")
  /\ SetPage(o, sendProgress(Page(o), "hideProgress"))
  /\ Return(o, "failed")
  /\ UNCHANGED <<batch, sinceShot, minGap>> /\ BgFrame

-----------------------------------------------------------------------------
(* Selection capture: captureScrollSelection and captureSelectionArea.      *)

SelKinds == {"scrollSel"}

\* effectiveViewportHeight / effectiveViewportWidth
EffectiveViewportHeight(op) ==
  IF op.useContainer THEN op.containerInfo.clientHeight ELSE op.viewportHeight

EffectiveViewportWidth(op) ==
  IF op.useContainer THEN op.containerInfo.clientWidth ELSE op.viewportWidth

\* A test of the selection's height against the window's viewport height alone.
NeedsScrollCaptureOfWindow(op) == op.rect.height > op.viewportHeight

\* const needsScrollCapture = selectionHeight > effectiveViewportHeight
NeedsScrollCapture(op) == op.rect.height > EffectiveViewportHeight(op)

\* cropX, cropY of the part of the selection that starts `captured` below its top, the
\* surface being scrolled to `scroll`
CropOriginAt(op, scroll, captured) ==
  IF op.useContainer
  THEN [x |-> op.containerInfo.viewportLeft + (op.rect.x - scroll.x),
        y |-> op.containerInfo.viewportTop + ((op.rect.y + captured) - scroll.y)]
  ELSE [x |-> op.rect.x - scroll.x,
        y |-> (op.rect.y + captured) - scroll.y]

\* const needsScroll = useContainer ? (...) : (...)
NeedsScroll(op, cropX, cropY) ==
  IF op.useContainer
  THEN \/ cropY < op.containerInfo.viewportTop
       \/ cropY + op.rect.height > op.containerInfo.viewportTop + EffectiveViewportHeight(op)
  ELSE \/ cropY < 0
       \/ cropY + op.rect.height > op.viewportHeight
       \/ cropX < 0
       \/ cropX + op.rect.width > op.viewportWidth

\* actualCropWidth: the crop's right edge may not pass the container's clientWidth
ActualCropWidth(op, width, scroll) ==
  IF op.useContainer /\ (op.rect.x - scroll.x) + width > EffectiveViewportWidth(op)
  THEN EffectiveViewportWidth(op) - (op.rect.x - scroll.x)
  ELSE width

\* finalCropWidth
FinalCropWidth(op) ==
  IF op.useContainer /\ op.rect.width > EffectiveViewportWidth(op)
  THEN EffectiveViewportWidth(op)
  ELSE op.rect.width

\* A tile height that ignores what is left of the selection.
SelCaptureHeightWholeStep(stepHeight, remainingHeight) == stepHeight

\* const captureHeight = Math.min(stepHeight, remainingHeight)
SelCaptureHeight(stepHeight, remainingHeight) == Min(stepHeight, remainingHeight)

\* the op once the single-viewport path knows the scroll offset it works with
WithCurrentScroll(op, scroll) ==
  LET c == CropOriginAt(op, scroll, 0)
  IN [op EXCEPT !.cropX = c.x, !.cropY = c.y,
                !.pc = IF NeedsScroll(op, c.x, c.y) THEN "oneScroll" ELSE "oneCapture"]

\* the op once the single-viewport crop rectangle is known
WithSingleCrop(op, scrollForWidth) ==
  [op EXCEPT !.crops = <<[x |-> op.cropX, y |-> op.cropY,
                          width |-> ActualCropWidth(op, op.rect.width, scrollForWidth),
                          height |-> op.rect.height]>>,
             !.pc = "oneRestore"]

\* getContainerScrollPosition / getPageScrollPosition: {x: 0, y: 0} when the script fails
ReadScroll(o) ==
  IF Page(o).open
  THEN SurfaceScroll(Page(o), TargetSurface(Page(o), Op(o).useContainer))
  ELSE Origin

\* the surfaces reached so far, with the one a scroll or a scroll read reaches now
Touched(o) ==
  IF Page(o).open
  THEN Op(o).touched \cup {TargetSurface(Page(o), Op(o).useContainer)}
  ELSE Op(o).touched

\* scrollContainerTo / scrollPageTo to (x, y), the code going on at `next`; with the tab
\* gone the script throws and the catch block is next
SelScroll(o, next, x, y) ==
  IF Page(o).open
  THEN /\ SetPage(o, ScrollSurfaceTo(Page(o), TargetSurface(Page(o), Op(o).useContainer), x, y))
       /\ ops' = [ops EXCEPT ![o].pc = next, ![o].touched = Touched(o)]
  ELSE Goto(o, "catchRestoreFixed") /\ UNCHANGED pages

\* captureScrollSelection is entered: chrome.tabs.get, isRestrictedPage, useContainer
S_Enter(o) ==
  /\ At(o, SelKinds, "enter")
  /\ IF ~Page(o).open THEN Goto(o, "catchRestoreFixed")
     ELSE IF Page(o).restricted THEN Return(o, "RESTRICTED_PAGE")
     ELSE ops' = [ops EXCEPT
            ![o].useContainer = /\ Op(o).containerInfo.present
                                /\ Op(o).containerInfo.scrollHeight > Op(o).containerInfo.clientHeight,
            ![o].pc = "getOriginal"]
  /\ UNCHANGED <<pages, batch, sinceShot, minGap>> /\ BgFrame

\* const originalScroll = await get...ScrollPosition(tabId); then the choice of path
S_GetOriginal(o) ==
  /\ At(o, SelKinds, "getOriginal")
  /\ LET op == [Op(o) EXCEPT !.originalScroll = ReadScroll(o), !.touched = Touched(o)]
     IN ops' = [ops EXCEPT ![o] =
          IF NeedsScrollCapture(op) THEN [op EXCEPT !.pc = "showProgress"]
          ELSE IF op.initialScroll.present
               THEN WithCurrentScroll(op, [x |-> op.initialScroll.x, y |-> op.initialScroll.y])
               ELSE [op EXCEPT !.pc = "oneGetCurrent"]]
  /\ UNCHANGED <<pages, batch, sinceShot, minGap>> /\ BgFrame

\* const currentScroll = initialScroll || await get...ScrollPosition(tabId)
S_OneGetCurrent(o) ==
  /\ At(o, SelKinds, "oneGetCurrent")
  /\ ops' = [ops EXCEPT ![o] =
       WithCurrentScroll([Op(o) EXCEPT !.touched = Touched(o)], ReadScroll(o))]
  /\ UNCHANGED <<pages, batch, sinceShot, minGap>> /\ BgFrame

\* if (needsScroll) await scroll...To(tabId, max(0, selectionLeft - 50), max(0, selectionTop - 50))
S_OneScroll(o) ==
  /\ At(o, SelKinds, "oneScroll")
  /\ SelScroll(o, "oneDelay300", Max(0, Op(o).rect.x - 50), Max(0, Op(o).rect.y - 50))
  /\ UNCHANGED <<batch, sinceShot, minGap>> /\ BgFrame

\* await delay(300)
S_OneDelay300(o) ==
  /\ At(o, SelKinds, "oneDelay300")
  /\ Goto(o, "oneReread")
  /\ Delayed(300)
  /\ UNCHANGED <<pages, batch, minGap>> /\ BgFrame

\* const actualScroll = await get...ScrollPosition(tabId); cropX, cropY from it
S_OneReread(o) ==
  /\ At(o, SelKinds, "oneReread")
  /\ LET sc == ReadScroll(o)
         c == CropOriginAt(Op(o), sc, 0)
     IN ops' = [ops EXCEPT ![o].actualScroll = sc, ![o].cropX = c.x, ![o].cropY = c.y,
                           ![o].touched = Touched(o), ![o].pc = "oneCapture"]
  /\ UNCHANGED <<pages, batch, sinceShot, minGap>> /\ BgFrame

\* captureVisibleTab of the single viewport; then the crop width, from initialScroll
\* when the request carried one
S_OneCapture(o) ==
  /\ At(o, SelKinds, "oneCapture")
  /\ LET op == [Op(o) EXCEPT !.shots = @ + 1, !.shotShown = @ \/ IndicatorShown(Page(o)),
                             !.scrollAtShot = SurfaceScroll(Page(o), Op(o).surface)]
     IN ops' = [ops EXCEPT ![o] =
          IF op.useContainer /\ ~op.initialScroll.present
          THEN [op EXCEPT !.pc = "oneGetWidthScroll"]
          ELSE WithSingleCrop(op, op.initialScroll)]
  /\ Shot
  /\ UNCHANGED <<pages, batch>> /\ BgFrame

\* const scrollForWidth = initialScroll || await getContainerScrollPosition(tabId)
S_OneGetWidthScroll(o) ==
  /\ At(o, SelKinds, "oneGetWidthScroll")
  /\ ops' = [ops EXCEPT ![o] =
       WithSingleCrop([Op(o) EXCEPT !.touched = Touched(o)], ReadScroll(o))]
  /\ UNCHANGED <<pages, batch, sinceShot, minGap>> /\ BgFrame

\* cropImage; await scroll...To(tabId, originalScroll.x, originalScroll.y); return
S_OneRestore(o) ==
  /\ At(o, SelKinds, "oneRestore")
  /\ IF Page(o).open
     THEN /\ SetPage(o, ScrollSurfaceTo(Page(o), TargetSurface(Page(o), Op(o).useContainer),
                                        Op(o).originalScroll.x, Op(o).originalScroll.y))
          /\ ops' = [ops EXCEPT ![o].pc = "done", ![o].result = "success",
                                ![o].touched = Touched(o)]
     ELSE Goto(o, "catchRestoreFixed") /\ UNCHANGED pages
  /\ UNCHANGED <<batch, sinceShot, minGap>> /\ BgFrame

\* await sendMessageToTab(tabId, {action: 'showProgress', percent: 0})
S_ShowProgress(o) ==
  /\ At(o, SelKinds, "showProgress")
  /\ SetPage(o, sendProgress(Page(o), "showProgress"))
  /\ Goto(o, "hideFixed")
  /\ UNCHANGED <<batch, sinceShot, minGap>> /\ BgFrame

\* await hideFixedElements(tabId)
S_HideFixed(o) ==
  /\ At(o, SelKinds, "hideFixed")
  /\ RunScript(o, "tileScroll", hideFixedElements(Page(o)))
  /\ UNCHANGED <<batch, sinceShot, minGap>> /\ BgFrame

\* await scroll...To(tabId, 0, selectionTop + capturedHeight)
S_TileScroll(o) ==
  /\ At(o, SelKinds, "tileScroll")
  /\ SelScroll(o, "tileDelay550", 0, Op(o).rect.y + Op(o).capturedHeight)
  /\ UNCHANGED <<batch, sinceShot, minGap>> /\ BgFrame

\* await delay(550)
S_TileDelay550(o) ==
  /\ At(o, SelKinds, "tileDelay550")
  /\ Goto(o, "tileRead")
  /\ Delayed(550)
  /\ UNCHANGED <<pages, batch, minGap>> /\ BgFrame

\* const actualScroll = await get...ScrollPosition(tabId)
S_TileRead(o) ==
  /\ At(o, SelKinds, "tileRead")
  /\ ops' = [ops EXCEPT ![o].actualScroll = ReadScroll(o), ![o].touched = Touched(o),
                        ![o].pc = "tempHide"]
  /\ UNCHANGED <<pages, batch, sinceShot, minGap>> /\ BgFrame

\* await sendMessageToTab(tabId, {action: 'tempHideProgress'})
S_TempHide(o) ==
  /\ At(o, SelKinds, "tempHide")
  /\ SetPage(o, sendProgress(Page(o), "tempHideProgress"))
  /\ Goto(o, "tileDelay30")
  /\ UNCHANGED <<batch, sinceShot, minGap>> /\ BgFrame

\* await delay(30)
S_TileDelay30(o) ==
  /\ At(o, SelKinds, "tileDelay30")
  /\ Goto(o, "tileCapture")
  /\ Delayed(30)
  /\ UNCHANGED <<pages, batch, minGap>> /\ BgFrame

\* captureVisibleTab of one tile
S_TileCapture(o) ==
  /\ At(o, SelKinds, "tileCapture")
  /\ ops' = [ops EXCEPT ![o].shots = @ + 1, ![o].pc = "tempShow",
                        ![o].shotShown = @ \/ IndicatorShown(Page(o)),
                        ![o].tileScrolls = Append(@, SurfaceScroll(Page(o), Op(o).surface))]
  /\ Shot
  /\ UNCHANGED <<pages, batch>> /\ BgFrame

\* the crop rectangle of the tile just captured: cropY is never negative
TileCrop(op) ==
  LET stepHeight == IF op.useContainer THEN EffectiveViewportHeight(op) ELSE op.viewportHeight
      c == CropOriginAt(op, op.actualScroll, op.capturedHeight)
  IN [x |-> c.x,
      y |-> IF c.y < 0 THEN 0 ELSE c.y,
      width |-> ActualCropWidth(op, FinalCropWidth(op), op.actualScroll),
      height |-> SelCaptureHeight(stepHeight, op.rect.height - op.capturedHeight)]

\* await sendMessageToTab(tabId, {action: 'tempShowProgress'}); cropImage;
\* screenshots.push; capturedHeight += captureHeight
S_TempShow(o) ==
  /\ At(o, SelKinds, "tempShow")
  /\ SetPage(o, sendProgress(Page(o), "tempShowProgress"))
  /\ ops' = [ops EXCEPT ![o].crops = Append(@, TileCrop(Op(o))),
                        ![o].capturedHeight = @ + TileCrop(Op(o)).height,
                        ![o].pc = "updateProgress"]
  /\ UNCHANGED <<batch, sinceShot, minGap>> /\ BgFrame

\* await sendMessageToTab(tabId, {action: 'updateProgress', ...}); the loop test
S_UpdateProgress(o) ==
  /\ At(o, SelKinds, "updateProgress")
  /\ SetPage(o, sendProgress(Page(o), "updateProgress"))
  /\ Goto(o, IF Op(o).capturedHeight < Op(o).rect.height THEN "tileScroll" ELSE "restoreFixed")
  /\ UNCHANGED <<batch, sinceShot, minGap>> /\ BgFrame

\* await restoreFixedElements(tabId)
S_RestoreFixed(o) ==
  /\ At(o, SelKinds, "restoreFixed")
  /\ RunScript(o, "restoreScroll", restoreFixedElements(Page(o)))
  /\ UNCHANGED <<batch, sinceShot, minGap>> /\ BgFrame

\* await scroll...To(tabId, originalScroll.x, originalScroll.y)
S_RestoreScroll(o) ==
  /\ At(o, SelKinds, "restoreScroll")
  /\ SelScroll(o, "hideProgress", Op(o).originalScroll.x, Op(o).originalScroll.y)
  /\ UNCHANGED <<batch, sinceShot, minGap>> /\ BgFrame

\* await sendMessageToTab(tabId, {action: 'hideProgress'}); stitchSelectionScreenshots;
\* return {success: true, ...}
S_HideProgress(o) ==
  /\ At(o, SelKinds, "hideProgress")
  /\ SetPage(o, sendProgress(Page(o), "hideProgress"))
  /\ Return(o, "success")
  /\ UNCHANGED <<batch, sinceShot, minGap>> /\ BgFrame

\* captureVisibleTab rejects: the catch block is next
S_CaptureFails(o) ==
  /\ \/ At(o, SelKinds, "oneCapture")
     \/ At(o, SelKinds, "tileCapture")
  /\ ops' = [ops EXCEPT ![o].shots = @ + 1, ![o].pc = "catchRestoreFixed"]
  /\ Shot
  /\ UNCHANGED <<pages, batch>> /\ BgFrame

\* catch (error) { try { await restoreFixedElements(tabId);
\*                       await sendMessageToTab(tabId, {action: 'hideProgress'}) }
\*                 catch (e) {} return {success: false, ...} }
S_CatchRestoreFixed(o) ==
  /\ At(o, SelKinds, "catchRestoreFixed")
  /\ RunCatchScript(o, "catchHideProgress", restoreFixedElements(Page(o)))
  /\ UNCHANGED <<batch, sinceShot, minGap>> /\ BgFrame

S_CatchHideProgress(o) ==
  /\ At(o, SelKinds, "catchHideProgress")
  /\ SetPage(o, sendProgress(Page(o), "hideProgress"))
  /\ Return(o, "failed")
  /\ UNCHANGED <<batch, sinceShot, minGap>> /\ BgFrame

AreaKinds == {"area"}

\* captureSelectionArea is entered: chrome.tabs.get and isRestrictedPage
A_Enter(o) ==
  /\ At(o, AreaKinds, "enter")
  /\ IF ~Page(o).open THEN Return(o, "failed")
     ELSE IF Page(o).restricted THEN Return(o, "RESTRICTED_PAGE")
     ELSE Goto(o, "capture")
  /\ UNCHANGED <<pages, batch, sinceShot, minGap>> /\ BgFrame

\* captureVisibleTab, cropImage(fullDataUrl, rect, ...), return {success: true, ...}
A_Capture(o) ==
  /\ At(o, AreaKinds, "capture")
  /\ ops' = [ops EXCEPT ![o].shots = @ + 1, ![o].crops = <<Op(o).rect>>,
                        ![o].shotShown = @ \/ IndicatorShown(Page(o)),
                        ![o].pc = "done", ![o].result = "success"]
  /\ Shot
  /\ UNCHANGED <<pages, batch>> /\ BgFrame

\* captureVisibleTab rejects: the catch block returns {success: false, ...}
A_CaptureFails(o) ==
  /\ At(o, AreaKinds, "capture")
  /\ ops' = [ops EXCEPT ![o].shots = @ + 1, ![o].pc = "done", ![o].result = "failed"]
  /\ Shot
  /\ UNCHANGED <<pages, batch>> /\ BgFrame

VisibleKinds == {"visible"}

\* A visible-area capture that does not look at the tab's URL.
V_EnterUnchecked(o) ==
  /\ At(o, VisibleKinds, "enter")
  /\ IF ~Page(o).open THEN Return(o, "failed") ELSE Goto(o, "capture")
  /\ UNCHANGED <<pages, batch, sinceShot, minGap>> /\ BgFrame

\* captureVisibleArea is entered: chrome.tabs.get and isRestrictedPage
V_Enter(o) ==
  /\ At(o, VisibleKinds, "enter")
  /\ IF ~Page(o).open THEN Return(o, "failed")
     ELSE IF Page(o).restricted THEN Return(o, "RESTRICTED_PAGE")
     ELSE Goto(o, "capture")
  /\ UNCHANGED <<pages, batch, sinceShot, minGap>> /\ BgFrame

\* captureVisibleTab and return {success: true, dataUrl, dimensions}
V_Capture(o) ==
  /\ At(o, VisibleKinds, "capture")
  /\ ops' = [ops EXCEPT ![o].shots = @ + 1, ![o].pc = "done", ![o].result = "success",
                        ![o].shotShown = @ \/ IndicatorShown(Page(o))]
  /\ Shot
  /\ UNCHANGED <<pages, batch>> /\ BgFrame

\* captureVisibleTab rejects: the catch block returns {success: false, ...}
V_CaptureFails(o) ==
  /\ At(o, VisibleKinds, "capture")
  /\ ops' = [ops EXCEPT ![o].shots = @ + 1, ![o].pc = "done", ![o].result = "failed"]
  /\ Shot
  /\ UNCHANGED <<pages, batch>> /\ BgFrame

\* the steps of a selection capture in which no call fails
S_StepNoFailure(o) ==
  \/ S_Enter(o)
  \/ S_GetOriginal(o)
  \/ S_OneGetCurrent(o)
  \/ S_OneScroll(o)
  \/ S_OneDelay300(o)
  \/ S_OneReread(o)
  \/ S_OneCapture(o)
  \/ S_OneGetWidthScroll(o)
  \/ S_OneRestore(o)
  \/ S_ShowProgress(o)
  \/ S_HideFixed(o)
  \/ S_TileScroll(o)
  \/ S_TileDelay550(o)
  \/ S_TileRead(o)
  \/ S_TempHide(o)
  \/ S_TileDelay30(o)
  \/ S_TileCapture(o)
  \/ S_TempShow(o)
  \/ S_UpdateProgress(o)
  \/ S_RestoreFixed(o)
  \/ S_RestoreScroll(o)
  \/ S_HideProgress(o)
  \/ A_Enter(o)
  \/ A_Capture(o)

\* every step of a selection capture but the rejection of a capture call
S_Step(o) ==
  \/ S_Enter(o)
  \/ S_GetOriginal(o)
  \/ S_OneGetCurrent(o)
  \/ S_OneScroll(o)
  \/ S_OneDelay300(o)
  \/ S_OneReread(o)
  \/ S_OneCapture(o)
  \/ S_OneGetWidthScroll(o)
  \/ S_OneRestore(o)
  \/ S_ShowProgress(o)
  \/ S_HideFixed(o)
  \/ S_TileScroll(o)
  \/ S_TileDelay550(o)
  \/ S_TileRead(o)
  \/ S_TempHide(o)
  \/ S_TileDelay30(o)
  \/ S_TileCapture(o)
  \/ S_TempShow(o)
  \/ S_UpdateProgress(o)
  \/ S_RestoreFixed(o)
  \/ S_RestoreScroll(o)
  \/ S_HideProgress(o)
  \/ S_CatchRestoreFixed(o)
  \/ S_CatchHideProgress(o)
  \/ A_Enter(o)
  \/ A_Capture(o)

-----------------------------------------------------------------------------
(* The selection UI of the content script (content.js), in tab "t1".        *)

UiTab == "t1"

\* ui.mode: "off" (no overlay), "armed" (overlay shown, nothing drawn),
\* "drawing" (isSelecting), "adjust" (isSelectionComplete).  scrollableContainer is the
\* detection cache: "null" (not detected), "window" (false: detected, none found) or the
\* element found.  For the properties only, `detections` counts the searches of the page
\* made since the cache was last cleared.  autoScroll is the interval of autoScrollAtEdge
\* with the deltas it was started with; grab is "drag" (isDraggingSelection), "resize"
\* (isResizingSelection) or "none", resizeHandle the handle that is held ("null": none).
\* For the bounds only, `moves` counts the pointer moves made with the selection held.
NoAutoScroll == [on |-> FALSE, x |-> 0, y |-> 0]

NoUi ==
  [mode |-> "off", isSelectingInContainer |-> FALSE, activeContainer |-> "none",
   scrollableContainer |-> "null", detections |-> 0,
   startDoc |-> Origin, currentDoc |-> Origin,
   selection |-> [left |-> 0, top |-> 0, width |-> 0, height |-> 0],
   autoScroll |-> NoAutoScroll, grab |-> "none", resizeHandle |-> "null", moves |-> 0]

\* A detector that keeps a cached result for ever.
KeepContainerDetection(u) == u

\* onMouseDown: scrollableContainer = null; isSelectingInContainer = false;
\* activeContainer = null
ResetContainerDetection(u) ==
  [u EXCEPT !.scrollableContainer = "null", !.detections = 0,
            !.isSelectingInContainer = FALSE, !.activeContainer = "none"]

\* detectScrollableContainer(): the cached result when there is one, else a search of the
\* page whose result is cached; the value returned is scrollableContainer afterwards
detectScrollableContainer(p, u) ==
  IF u.scrollableContainer # "null" THEN u
  ELSE [u EXCEPT !.scrollableContainer = findScrollableContainer(p),
                 !.detections = @ + 1]

\* checkAndSetContainerMode(clientX, clientY): the container detected, when the point
\* lies inside its bounding rectangle
checkAndSetContainerMode(p, u, cx, cy) ==
  LET d == detectScrollableContainer(p, u)
      container == d.scrollableContainer
      inside == /\ container # "window"
                /\ cx >= p.box.left /\ cx <= p.box.left + p.box.clientWidth
                /\ cy >= p.box.top /\ cy <= p.box.top + p.box.clientHeight
  IN [d EXCEPT !.isSelectingInContainer = inside,
               !.activeContainer = IF inside THEN container ELSE "none"]

\* getCurrentScroll()
getCurrentScroll(p, u) ==
  IF u.isSelectingInContainer /\ u.activeContainer # "none"
  THEN SurfaceScroll(p, u.activeContainer)
  ELSE SurfaceScroll(p, "window")

\* clientToDocCoords(clientX, clientY)
clientToDocCoords(p, u, cx, cy) ==
  IF u.isSelectingInContainer /\ u.activeContainer # "none"
  THEN [x |-> cx - p.box.left + p.els[u.activeContainer].scrollLeft,
        y |-> cy - p.box.top + p.els[u.activeContainer].scrollTop]
  ELSE [x |-> cx + p.scrollX, y |-> cy + p.scrollY]

\* docToClientCoords(docX, docY)
docToClientCoords(p, u, docX, docY) ==
  IF u.isSelectingInContainer /\ u.activeContainer # "none"
  THEN [x |-> p.box.left + (docX - p.els[u.activeContainer].scrollLeft),
        y |-> p.box.top + (docY - p.els[u.activeContainer].scrollTop)]
  ELSE [x |-> docX - p.scrollX, y |-> docY - p.scrollY]

Abs(v) == IF v < 0 THEN -v ELSE v

\* getSelectionRect()
getSelectionRect(u) ==
  [x |-> Min(u.startDoc.x, u.currentDoc.x), y |-> Min(u.startDoc.y, u.currentDoc.y),
   width |-> Abs(u.currentDoc.x - u.startDoc.x),
   height |-> Abs(u.currentDoc.y - u.startDoc.y)]

\* autoScrollAtEdge(clientX, clientY): the deltas of the scroll interval it would start
autoScrollAtEdge(p, cx, cy) ==
  [x |-> IF cx < 50 THEN -15 ELSE IF cx > p.viewportWidth - 50 THEN 15 ELSE 0,
   y |-> IF cy < 50 THEN -15 ELSE IF cy > p.viewportHeight - 50 THEN 15 ELSE 0]

UiFrame == UNCHANGED <<crop, popup, editor, pages, ops, batch, sinceShot, minGap>>

\* the listener's 'startSelection': createSelectionOverlay()
UI_StartSelection ==
  /\ pages[UiTab].open /\ pages[UiTab].scriptLoaded
  /\ ui.mode = "off"
  /\ ui' = [NoUi EXCEPT !.mode = "armed"]
  /\ UNCHANGED requests /\ UiFrame

\* onMouseDown(e) on the overlay: a new drawing starts, unless the click falls inside a
\* completed selection
UI_MouseDown(cx, cy) ==
  /\ pages[UiTab].open
  /\ \/ ui.mode = "armed"
     \/ /\ ui.mode = "adjust"
        /\ ~ /\ cx >= ui.selection.left /\ cx <= ui.selection.left + ui.selection.width
             /\ cy >= ui.selection.top /\ cy <= ui.selection.top + ui.selection.height
  /\ LET u == checkAndSetContainerMode(pages[UiTab], ResetContainerDetection(ui), cx, cy)
         doc == clientToDocCoords(pages[UiTab], u, cx, cy)
     IN ui' = [u EXCEPT !.mode = "drawing", !.startDoc = doc, !.currentDoc = doc,
                        !.grab = "none", !.resizeHandle = "null"]
  /\ UNCHANGED requests /\ UiFrame

\* onMouseMove(e) while drawing: the current corner follows the pointer, and
\* autoScrollAtEdge starts the scroll interval within 50px of an edge of the viewport,
\* unless one runs, and clears it away from the edges
UI_MouseMove(cx, cy) ==
  /\ pages[UiTab].open
  /\ ui.mode = "drawing"
  /\ LET d == autoScrollAtEdge(pages[UiTab], cx, cy)
     IN ui' = [ui EXCEPT
          !.currentDoc = clientToDocCoords(pages[UiTab], ui, cx, cy),
          !.autoScroll = IF d = Origin THEN NoAutoScroll
                         ELSE IF @.on THEN @ ELSE [on |-> TRUE, x |-> d.x, y |-> d.y]]
  /\ UNCHANGED requests /\ UiFrame

MaxWheels == 1

\* the surface scrollBy(deltaX, deltaY) of the content script scrolls
UiSurface(u) ==
  IF u.isSelectingInContainer /\ u.activeContainer # "none" THEN u.activeContainer
  ELSE "window"

\* onWheel(e) on the overlay, in any mode of the selection UI: e.preventDefault() and
\* scrollBy(e.deltaX, e.deltaY); the scroll event that follows runs onScroll, which
\* redraws the box (updateSelectionBox) and changes no selection variable
UI_Wheel(dx, dy) ==
  /\ pages[UiTab].open
  /\ ui.mode # "off"
  /\ pages[UiTab].wheels < MaxWheels
  /\ LET p == pages[UiTab]
         sc == SurfaceScroll(p, UiSurface(ui))
     IN pages' = [pages EXCEPT ![UiTab] =
          [ScrollSurfaceTo(p, UiSurface(ui), sc.x + dx, sc.y + dy) EXCEPT !.wheels = @ + 1]]
  /\ UNCHANGED <<ui, requests, crop, popup, editor, ops, batch, sinceShot, minGap>>

\* enterAdjustMode()
enterAdjustMode(p, u) ==
  LET r == getSelectionRect(u)
      view == docToClientCoords(p, u, r.x, r.y)
  IN [u EXCEPT !.mode = "adjust",
               !.selection = [left |-> view.x, top |-> view.y,
                              width |-> r.width, height |-> r.height]]

\* onMouseUp(): a drag or a resize of the selection ends; at the end of a drawing the
\* scroll interval is cleared, a selection under 10px is dropped with the overlay
\* (removeSelectionOverlay) and any other enters the adjust mode
UI_MouseUp ==
  /\ pages[UiTab].open
  /\ \/ /\ ui.grab # "none"
        /\ ui' = [ui EXCEPT !.grab = "none", !.resizeHandle = "null"]
     \/ /\ ui.grab = "none" /\ ui.mode = "drawing"
        /\ ui' = IF getSelectionRect(ui).width < 10 \/ getSelectionRect(ui).height < 10
                 THEN NoUi
                 ELSE [enterAdjustMode(pages[UiTab], ui) EXCEPT !.autoScroll = NoAutoScroll]
  /\ UNCHANGED requests /\ UiFrame

\* onSelectionBoxMouseDown(e): the selection is dragged from now on
UI_SelectionBoxMouseDown ==
  /\ pages[UiTab].open
  /\ ui.mode = "adjust" /\ ui.grab = "none"
  /\ ui' = [ui EXCEPT !.grab = "drag"]
  /\ UNCHANGED requests /\ UiFrame

\* the eight handles of the selection in the adjust mode
Handles == {"nw", "n", "ne", "e", "se", "s", "sw", "w"}

\* onHandleMouseDown(e, position): the selection is resized by this handle from now on
UI_HandleMouseDown(position) ==
  /\ pages[UiTab].open
  /\ ui.mode = "adjust" /\ ui.grab = "none"
  /\ ui' = [ui EXCEPT !.grab = "resize", !.resizeHandle = position]
  /\ UNCHANGED requests /\ UiFrame

\* onMouseMove(e) while the selection is dragged: the pointer has moved by (dx, dy)
\* since the last event (dragStartX/Y are set to the pointer at every event), and
\* the selection moves with it
UI_DragMove(dx, dy) ==
  /\ pages[UiTab].open
  /\ ui.grab = "drag"
  /\ ui' = [ui EXCEPT !.selection.left = @ + dx, !.selection.top = @ + dy,
                      !.moves = @ + 1]
  /\ UNCHANGED requests /\ UiFrame

minSize == 20

\* handleResize without the minimum size
handleResizeAnySize(sel, handle, dx, dy) ==
  LET west == handle \in {"nw", "w", "sw"}
      east == handle \in {"ne", "e", "se"}
      north == handle \in {"nw", "n", "ne"}
      south == handle \in {"sw", "s", "se"}
  IN [left |-> IF west THEN sel.left + dx ELSE sel.left,
      width |-> IF west THEN sel.width - dx ELSE IF east THEN sel.width + dx
                ELSE sel.width,
      top |-> IF north THEN sel.top + dy ELSE sel.top,
      height |-> IF north THEN sel.height - dy ELSE IF south THEN sel.height + dy
                 ELSE sel.height]

\* handleResize(clientX, clientY): the pointer has moved by (dx, dy); the edges of the
\* held handle follow it, each dimension only if it stays at least minSize
handleResize(sel, handle, dx, dy) ==
  LET west == handle \in {"nw", "w", "sw"} /\ sel.width - dx >= minSize
      east == handle \in {"ne", "e", "se"} /\ sel.width + dx >= minSize
      north == handle \in {"nw", "n", "ne"} /\ sel.height - dy >= minSize
      south == handle \in {"sw", "s", "se"} /\ sel.height + dy >= minSize
  IN [left |-> IF west THEN sel.left + dx ELSE sel.left,
      width |-> IF west THEN sel.width - dx ELSE IF east THEN sel.width + dx
                ELSE sel.width,
      top |-> IF north THEN sel.top + dy ELSE sel.top,
      height |-> IF north THEN sel.height - dy ELSE IF south THEN sel.height + dy
                 ELSE sel.height]

\* onMouseMove(e) while a handle is held
UI_ResizeMove(dx, dy) ==
  /\ pages[UiTab].open
  /\ ui.grab = "resize" /\ ui.resizeHandle # "null"
  /\ ui' = [ui EXCEPT !.selection = handleResize(@, ui.resizeHandle, dx, dy),
                      !.moves = @ + 1]
  /\ UNCHANGED requests /\ UiFrame

MaxTicks == 2

\* the callback of the interval autoScrollAtEdge started: scrollBy(deltaX, deltaY) on
\* the active container in container mode, else on the window; the page counts the
\* callbacks
UI_AutoScrollTick ==
  /\ pages[UiTab].open
  /\ ui.autoScroll.on
  /\ pages[UiTab].ticks < MaxTicks
  /\ LET p == pages[UiTab]
         sc == SurfaceScroll(p, UiSurface(ui))
     IN pages' = [pages EXCEPT ![UiTab] =
          [ScrollSurfaceTo(p, UiSurface(ui), sc.x + ui.autoScroll.x, sc.y + ui.autoScroll.y)
             EXCEPT !.ticks = @ + 1]]
  /\ UNCHANGED <<ui, requests, crop, popup, editor, ops, batch, sinceShot, minGap>>

\* what the user was doing when Escape was pressed
UiActivity(u) ==
  CASE u.autoScroll.on -> "autoScroll"
    [] u.grab # "none" -> u.grab
    [] OTHER -> u.mode

\* An Escape that leaves the scroll interval running.
UI_EscapeKeepsInterval ==
  /\ pages[UiTab].open
  /\ ui.mode # "off"
  /\ ui' = [NoUi EXCEPT !.autoScroll = ui.autoScroll]
  /\ pages' = [pages EXCEPT ![UiTab].escape = [flip |-> ~@.flip, from |-> UiActivity(ui)]]
  /\ UNCHANGED <<requests, crop, popup, editor, ops, batch, sinceShot, minGap>>

\* onKeyDown(e) with e.key === 'Escape', the listener being on the document while the
\* overlay is shown: clearInterval(autoScrollInterval), removeSelectionOverlay() and the
\* message 'selectionCancelled', which the service worker answers without doing anything.
\* For the properties only, the page records that Escape was pressed (flip changes) and
\* what the user was doing.
UI_Escape ==
  /\ pages[UiTab].open
  /\ ui.mode # "off"
  /\ ui' = NoUi
  /\ pages' = [pages EXCEPT ![UiTab].escape = [flip |-> ~@.flip, from |-> UiActivity(ui)]]
  /\ UNCHANGED <<requests, crop, popup, editor, ops, batch, sinceShot, minGap>>

\* the containerInfo confirmSelection() sends
ContainerInfoOf(p, u) ==
  IF u.isSelectingInContainer /\ u.activeContainer # "none"
  THEN [present |-> TRUE, scrollHeight |-> p.els[u.activeContainer].scrollHeight,
        clientHeight |-> p.box.clientHeight, clientWidth |-> p.box.clientWidth,
        viewportTop |-> p.box.top, viewportLeft |-> p.box.left]
  ELSE NoContainerInfo

\* confirmSelection(): a selection under 10px is dropped with the overlay; any other is
\* sent to the service worker as 'scrollSelectionComplete' and the overlay removed
UI_ConfirmSelection ==
  /\ pages[UiTab].open
  /\ ui.mode = "adjust"
  /\ LET p == pages[UiTab]
         doc == clientToDocCoords(p, ui, ui.selection.left, ui.selection.top)
         rect == [x |-> doc.x, y |-> doc.y,
                  width |-> ui.selection.width, height |-> ui.selection.height]
         scroll == getCurrentScroll(p, ui)
     IN requests' =
          IF rect.width < 10 \/ rect.height < 10 THEN requests
          ELSE Append(requests,
                 [action |-> "scrollSelectionComplete", tab |-> UiTab, rect |-> rect,
                  viewportHeight |-> p.viewportHeight, viewportWidth |-> p.viewportWidth,
                  dpr |-> p.dpr, containerInfo |-> ContainerInfoOf(p, ui),
                  currentScroll |-> [present |-> TRUE, x |-> scroll.x, y |-> scroll.y],
                  surface |-> IF ui.isSelectingInContainer THEN ui.activeContainer
                              ELSE "window",
                  operation |-> "none", fromUi |-> TRUE,
                  drawn |-> getSelectionRect(ui)])
  /\ ui' = NoUi
  /\ UiFrame

-----------------------------------------------------------------------------
(* Batch capture: batchCaptureAllTabs and captureBatchTabWithProgress.      *)

\* the tabs of a batch task, in the order of task.tabIds
BatchTabIds == <<"t1", "t2">>

\* no batchCaptureTask in chrome.storage.local
NoTask == [present |-> FALSE, tabIds |-> <<>>]

\* `stored` is the batchCaptureTask of chrome.storage.local and `handlers` the calls of
\* startBatchCaptureFromStorage, one per 'startBatchCapture' message
NoBatch == [pc |-> "idle", captureMode |-> "full", tabIds |-> BatchTabIds, i |-> 1,
            results |-> <<>>, stored |-> NoTask, handlers |-> <<>>]

\* the tab captureBatchTabWithProgress is working on
BatchTab == batch.tabIds[batch.i]

BatchFrame == UNCHANGED <<crop, popup, editor, ui, requests>>

BatchGoto(pc) == batch' = [batch EXCEPT !.pc = pc]

\* A loop that returns at the first tab whose result is not a capture's return.
BatchStopsAtFailure(result) ==
  batch' = [batch EXCEPT !.results = Append(@, result),
                         !.i = IF batch.i < Len(batch.tabIds) /\ result = "returned"
                               THEN batch.i + 1 ELSE batch.i,
                         !.pc = IF batch.i < Len(batch.tabIds) /\ result = "returned"
                                THEN "tabGet" ELSE "done"]

\* captureBatchTabWithProgress returns `result` for the current tab: the loop of
\* batchCaptureAllTabs records it and goes on with the next tab, if any
BatchNext(result) ==
  batch' = [batch EXCEPT !.results = Append(@, result),
                         !.i = IF batch.i < Len(batch.tabIds) THEN batch.i + 1 ELSE batch.i,
                         !.pc = IF batch.i < Len(batch.tabIds) THEN "tabGet" ELSE "done"]

\* handleMessage 'startBatchCapture': startBatchCaptureFromStorage reads the task and
\* calls batchCaptureAllTabs with its capture mode
B_Start(captureMode) ==
  /\ batch.pc = "idle"
  /\ batch' = [NoBatch EXCEPT !.pc = "tabGet", !.captureMode = captureMode]
  /\ UNCHANGED <<pages, ops, sinceShot, minGap>> /\ BatchFrame

\* startBatchCaptureFromStorage with a stored task of the given tabIds (a task without
\* tabIds is not run), or handleMessage 'batchCaptureAllTabs' with params.tabIds
B_StartTask(tabIds, captureMode) ==
  /\ batch.pc = "idle"
  /\ Len(tabIds) # 0
  /\ batch' = [NoBatch EXCEPT !.pc = "tabGet", !.captureMode = captureMode,
                              !.tabIds = tabIds]
  /\ UNCHANGED <<pages, ops, sinceShot, minGap>> /\ BatchFrame

\* chrome.tabs.get(tabId) and isRestrictedPage
B_TabGet ==
  /\ batch.pc = "tabGet"
  /\ IF ~pages[BatchTab].open THEN BatchNext("failed")
     ELSE IF pages[BatchTab].restricted THEN BatchNext("RESTRICTED_PAGE")
     ELSE BatchGoto("activate")
  /\ UNCHANGED <<pages, ops, sinceShot, minGap>> /\ BatchFrame

\* await chrome.tabs.update(tabId, {active: true})
B_Activate ==
  /\ batch.pc = "activate"
  /\ IF pages[BatchTab].open
     THEN /\ BatchGoto("delay300")
          /\ pages' = [pages EXCEPT ![BatchTab].activated = TRUE]
     ELSE /\ BatchNext("failed")
          /\ UNCHANGED pages
  /\ UNCHANGED <<ops, sinceShot, minGap>> /\ BatchFrame

\* await delay(300)
B_Delay300 ==
  /\ batch.pc = "delay300"
  /\ BatchGoto("showBatchProgress")
  /\ Delayed(300)
  /\ UNCHANGED <<pages, ops, minGap>> /\ BatchFrame

\* sendMessageToTab with one of its importantActions: delivered at once when the content
\* script is loaded; otherwise content.js is injected, delay(100) awaited and the
\* message sent again
SendImportant(next, retry) ==
  IF pages[BatchTab].open /\ ~pages[BatchTab].scriptLoaded
  THEN /\ BatchGoto(retry)
       /\ pages' = [pages EXCEPT ![BatchTab].scriptLoaded = TRUE]
  ELSE /\ BatchGoto(next)
       /\ UNCHANGED pages

\* where the capture of the current tab starts, by mode
CapturePc == IF batch.captureMode = "visible" THEN "visibleEnter" ELSE "fullStart"

\* await sendMessageToTab(tabId, {action: 'showBatchProgress', ...})
B_ShowBatchProgress ==
  /\ batch.pc = "showBatchProgress"
  /\ SendImportant(CapturePc, "showRetryDelay100")
  /\ UNCHANGED <<ops, sinceShot, minGap>> /\ BatchFrame

\* await delay(100) of the retry, then the second sendMessage
B_ShowRetryDelay100 ==
  /\ batch.pc = "showRetryDelay100"
  /\ BatchGoto(CapturePc)
  /\ Delayed(100)
  /\ UNCHANGED <<pages, ops, minGap>> /\ BatchFrame

\* captureVisibleArea(tabId): chrome.tabs.get and isRestrictedPage
B_VisibleEnter ==
  /\ batch.pc = "visibleEnter"
  /\ BatchGoto(IF pages[BatchTab].open THEN "visibleCapture" ELSE "hideBatchProgress")
  /\ UNCHANGED <<pages, ops, sinceShot, minGap>> /\ BatchFrame

\* captureVisibleArea(tabId): chrome.tabs.captureVisibleTab, resolved or rejected
B_VisibleCapture ==
  /\ batch.pc = "visibleCapture"
  /\ BatchGoto("hideBatchProgress")
  /\ Shot
  /\ UNCHANGED <<pages, ops>> /\ BatchFrame

\* result = await captureFullPageForBatch(tabId, format, quality): the call
B_FullStart ==
  /\ batch.pc = "fullStart"
  /\ Op(batch.i).pc = "idle"
  /\ ops' = [ops EXCEPT ![batch.i] = [IdleOp EXCEPT !.kind = "fullBatch", !.tab = BatchTab,
                                                    !.pc = "enter"]]
  /\ BatchGoto("fullAwait")
  /\ UNCHANGED <<pages, sinceShot, minGap>> /\ BatchFrame

\* result = await captureFullPageForBatch(tabId, format, quality): the return
B_FullReturns ==
  /\ batch.pc = "fullAwait"
  /\ Op(batch.i).pc = "done"
  /\ BatchGoto("hideBatchProgress")
  /\ UNCHANGED <<pages, ops, sinceShot, minGap>> /\ BatchFrame

\* await sendMessageToTab(tabId, {action: 'hideBatchProgress'}); return result.  A tab
\* whose content script is missing gets it injected, with the retry's delay(100).
B_HideBatchProgress ==
  /\ batch.pc = "hideBatchProgress"
  /\ BatchNext("returned")
  /\ IF pages[BatchTab].open /\ ~pages[BatchTab].scriptLoaded
     THEN /\ pages' = [pages EXCEPT ![BatchTab].scriptLoaded = TRUE]
          /\ Delayed(100)
     ELSE UNCHANGED <<pages, sinceShot>>
  /\ UNCHANGED <<ops, minGap>> /\ BatchFrame

B_Step ==
  \/ B_TabGet
  \/ B_Activate
  \/ B_Delay300
  \/ B_ShowBatchProgress
  \/ B_ShowRetryDelay100
  \/ B_VisibleEnter
  \/ B_VisibleCapture
  \/ B_FullStart
  \/ B_FullReturns
  \/ B_HideBatchProgress

-----------------------------------------------------------------------------
(* What starts an operation, and the environment.                           *)

\* how many times the page's elements change in one behaviour
MaxPageChanges == 1

\* the record of the next operation to start: records are used in order
FreeSlot(o) == Op(o).pc = "idle" /\ \A k \in DOMAIN ops : k < o => Op(k).pc # "idle"

\* chrome.commands.onCommand 'capture-full-page': captureFullPage(tab.id), which shows
\* its progress in the page
OnCommandFullPage(o, t) ==
  /\ FreeSlot(o)
  /\ ops' = [ops EXCEPT ![o] = [IdleOp EXCEPT !.kind = "full", !.tab = t, !.pc = "enter",
                                              !.showPageProgress = TRUE]]
  /\ UNCHANGED <<pages, batch, sinceShot, minGap>> /\ BgFrame

\* handleMessage 'captureFullPage' (popup): captureFullPage(..., onProgress, false)
OnMessageFullPage(o, t) ==
  /\ FreeSlot(o)
  /\ ops' = [ops EXCEPT ![o] = [IdleOp EXCEPT !.kind = "full", !.tab = t, !.pc = "enter",
                                              !.showPageProgress = FALSE]]
  /\ UNCHANGED <<pages, batch, sinceShot, minGap>> /\ BgFrame

\* chrome.commands.onCommand 'capture-visible' and handleMessage 'captureVisible':
\* captureVisibleArea(tab.id)
OnCaptureVisible(o, t) ==
  /\ FreeSlot(o)
  /\ ops' = [ops EXCEPT ![o] = [IdleOp EXCEPT !.kind = "visible", !.tab = t, !.pc = "enter"]]
  /\ UNCHANGED <<pages, batch, sinceShot, minGap>> /\ BgFrame

\* the user closes the tab: chrome.tabs.get and every injected script fail from now on
TabCloses(t) ==
  /\ pages[t].open
  /\ pages' = [pages EXCEPT ![t].open = FALSE]
  /\ UNCHANGED <<ops, batch, sinceShot, minGap>> /\ BgFrame

\* chrome.runtime.onMessage -> handleMessage: 'scrollSelectionComplete' and
\* 'captureSelection' with an operation run captureScrollSelection, 'captureSelection'
\* without one runs captureSelectionArea; nothing is looked at in the rectangle
HandleSelectionMessage(o) ==
  /\ requests # <<>>
  /\ FreeSlot(o)
  /\ LET m == Head(requests)
     IN ops' = [ops EXCEPT ![o] =
          IF m.action = "scrollSelectionComplete" \/ m.operation # "none"
          THEN [IdleOp EXCEPT !.kind = "scrollSel", !.tab = m.tab, !.pc = "enter",
                              !.rect = m.rect, !.viewportHeight = m.viewportHeight,
                              !.viewportWidth = m.viewportWidth, !.dpr = m.dpr,
                              !.containerInfo = m.containerInfo,
                              !.initialScroll = m.currentScroll, !.surface = m.surface,
                              !.scrollAtStart = SurfaceScroll(pages[m.tab], m.surface)]
          ELSE [IdleOp EXCEPT !.kind = "area", !.tab = m.tab, !.pc = "enter",
                              !.rect = m.rect, !.surface = m.surface,
                              !.scrollAtStart = SurfaceScroll(pages[m.tab], m.surface)]]
  /\ requests' = Tail(requests)
  /\ UNCHANGED <<pages, batch, sinceShot, minGap, crop, popup, editor, ui>>

\* A page script or a style change turns an element's overflow-y between visible and
\* auto: the element starts or stops being scrollable.
PageChanges(t, c) ==
  /\ pages[t].open
  /\ pages[t].changes < MaxPageChanges
  /\ pages' = [pages EXCEPT
       ![t].changes = @ + 1,
       ![t].els[c].overflowY = IF @ = "visible" THEN "auto" ELSE "visible"]
  /\ UNCHANGED <<ops, batch, sinceShot, minGap>> /\ BgFrame

\* every step of a full-page capture but the rejection of a capture call
FP_Step(o) ==
  \/ FP_Enter(o)
  \/ FP_GetScrollInfo(o)
  \/ FP_HideScrollbar(o)
  \/ FP_ScrollTop(o)
  \/ FP_Delay300(o)
  \/ FP_CaptureFirst(o)
  \/ FP_HideFixed(o)
  \/ FP_ScrollTile(o)
  \/ FP_Delay550(o)
  \/ FP_CaptureTile(o)
  \/ FP_RestoreFixed(o)
  \/ FP_RestoreScrollbar(o)
  \/ FP_RestoreScroll(o)
  \/ FP_Stitch(o)
  \/ FP_SendProgress(o)

FP_CatchStep(o) ==
  \/ FP_CatchRestoreFixed(o)
  \/ FP_CatchRestoreScrollbar(o)
  \/ FP_CatchHideProgress(o)

\* the steps of captureFullPageForBatch, which sends no progress to the page
FPB_Step(o) ==
  \/ FP_Enter(o)
  \/ FP_GetScrollInfo(o)
  \/ FP_HideScrollbar(o)
  \/ FP_ScrollTop(o)
  \/ FP_Delay300(o)
  \/ FP_CaptureFirst(o)
  \/ FP_HideFixed(o)
  \/ FP_ScrollTile(o)
  \/ FP_Delay550(o)
  \/ FP_CaptureTile(o)
  \/ FP_RestoreFixed(o)
  \/ FP_RestoreScrollbar(o)
  \/ FP_RestoreScroll(o)
  \/ FP_Stitch(o)
  \/ FP_CaptureFails(o)
  \/ FP_CatchRestoreFixed(o)
  \/ FP_CatchRestoreScrollbar(o)

-----------------------------------------------------------------------------
(* Initial states *)

NoCrop == [state |-> "none"]

\* a page without inner containers: no element is scrollable
NoBox == [clientHeight |-> 0, clientWidth |-> 0, scrollWidth |-> 0, top |-> 0, left |-> 0]

NoEl == [overflowY |-> "visible", scrollHeight |-> 0, scrollTop |-> 0, scrollLeft |-> 0]

\* the layout heights of document.body and document.documentElement, all h
SameMetrics(h) ==
  [bodyScrollHeight |-> h, htmlScrollHeight |-> h, bodyOffsetHeight |-> h,
   htmlOffsetHeight |-> h, bodyClientHeight |-> h, htmlClientHeight |-> h]

\* A page whose window scrolls over scrollHeight rows and whose body and root element
\* report that height in every layout metric.  `activated` records, for the properties
\* only, that chrome.tabs.update(tabId, {active: true}) was called for the tab.
NewPage(scrollHeight, viewportHeight, dpr, imageHeight, scrollY, vis) ==
  [open |-> TRUE, restricted |-> FALSE, scriptLoaded |-> TRUE,
   activated |-> FALSE, escape |-> [flip |-> FALSE, from |-> "none"], ticks |-> 0,
   scrollHeight |-> scrollHeight, metrics |-> SameMetrics(scrollHeight), viewportHeight |-> viewportHeight, dpr |-> dpr,
   imageHeight |-> imageHeight, scrollY |-> scrollY, vis |-> vis,
   hiddenList |-> NoHiddenList, scrollbarHidden |-> FALSE, progress |-> "none",
   unknown |-> {},
   scrollX |-> 0, viewportWidth |-> 1, scrollWidth |-> 1,
   box |-> NoBox, els |-> [c \in Conts |-> NoEl], changes |-> 0, wheels |-> 0,
   scrollY0 |-> scrollY, vis0 |-> vis]

\* the image a captureVisibleTab call returns for the page
ViewportImage(p) == [width |-> RoundDpr(p.viewportWidth, p.dpr), height |-> p.imageHeight]

BlankPage == NewPage(1, 1, <<1, 1>>, 1, 0, [e \in Elems |-> ""])

\* no capture call has been made yet; no gap seen
ClockInit == sinceShot = -1 /\ minGap = 600

-----------------------------------------------------------------------------
(* SpecTiles: one full-page capture of any page, taken alone, no failure.   *)

MaxScrollHeight == 9
MaxViewportHeight == 4
MaxImageHeight == 10

InitTiles ==
  /\ \E sh \in 1..MaxScrollHeight, vh \in 1..MaxViewportHeight, dpr \in Dprs,
        ih \in 0..MaxImageHeight :
       pages = [t \in Tabs |-> IF t = "t1"
                               THEN NewPage(sh, vh, dpr, ih, 0, [e \in Elems |-> ""])
                               ELSE BlankPage]
  /\ ops = [o \in {1} |-> IdleOp]
  /\ ClockInit
  /\ crop = NoCrop /\ popup = NoPopup /\ editor = NoEditor
  /\ ui = NoUi /\ requests = <<>> /\ batch = NoBatch

NextTiles ==
  \/ OnCommandFullPage(1, "t1")
  \/ OnMessageFullPage(1, "t1")
  \/ FP_Step(1)

SpecTiles == InitTiles /\ [][NextTiles]_vars

-----------------------------------------------------------------------------
(* SpecMetrics: one full-page capture of a page whose body and root element *)
(* report different heights in their layout metrics (a transformed or       *)
(* absolutely positioned body, a quirks-mode document).                     *)

MetricHeights == {4, 6}

InitMetrics ==
  /\ \E bs, hs, bo, ho, bc, hc \in MetricHeights, dpr \in {<<1, 1>>, <<2, 1>>} :
       pages = [t \in Tabs |->
                  IF t = "t1"
                  THEN [NewPage(Max(bs, hs), 2, dpr, 2 * dpr[1], 0, [e \in Elems |-> ""])
                          EXCEPT !.metrics =
                            [bodyScrollHeight |-> bs, htmlScrollHeight |-> hs,
                             bodyOffsetHeight |-> bo, htmlOffsetHeight |-> ho,
                             bodyClientHeight |-> bc, htmlClientHeight |-> hc]]
                  ELSE BlankPage]
  /\ ops = [o \in {1} |-> IdleOp]
  /\ ClockInit
  /\ crop = NoCrop /\ popup = NoPopup /\ editor = NoEditor
  /\ ui = NoUi /\ requests = <<>> /\ batch = NoBatch

SpecMetrics == InitMetrics /\ [][NextTiles]_vars

-----------------------------------------------------------------------------
(* Spec: full-page captures of one tab, started by shortcut commands and    *)
(* popup messages at any time, with capture calls that may be rejected and  *)
(* a tab that may be closed.  The listeners start a capture whenever their  *)
(* event arrives; nothing in the service worker queues or refuses them.     *)

MaxOps == 2

Ops == 1..MaxOps

Init ==
  /\ \E sh \in {2, 4} :
       pages = [t \in Tabs |->
                  IF t = "t1"
                  THEN NewPage(sh, 2, <<1, 1>>, 2, IF sh = 4 THEN 1 ELSE 0,
                               [e \in Elems |-> IF e = "sidebar" THEN "hidden" ELSE ""])
                  ELSE BlankPage]
  /\ ops = [o \in Ops |-> IdleOp]
  /\ ClockInit
  /\ crop = NoCrop /\ popup = NoPopup /\ editor = NoEditor
  /\ ui = NoUi /\ requests = <<>> /\ batch = NoBatch

Next ==
  \/ \E o \in Ops :
       \/ OnCommandFullPage(o, "t1")
       \/ OnMessageFullPage(o, "t1")
       \/ FP_Step(o)
       \/ FP_CaptureFails(o)
       \/ FP_CatchStep(o)
  \/ TabCloses("t1")

Spec == Init /\ [][Next]_vars

-----------------------------------------------------------------------------
(* SpecSolo: one full-page capture of the pages of Spec, taken alone, with  *)
(* capture calls that may be rejected and a tab that may be closed.         *)

InitSolo ==
  /\ \E sh \in {2, 4} :
       pages = [t \in Tabs |->
                  IF t = "t1"
                  THEN NewPage(sh, 2, <<1, 1>>, 2, IF sh = 4 THEN 1 ELSE 0,
                               [e \in Elems |-> IF e = "sidebar" THEN "hidden" ELSE ""])
                  ELSE BlankPage]
  /\ ops = [o \in {1} |-> IdleOp]
  /\ ClockInit
  /\ crop = NoCrop /\ popup = NoPopup /\ editor = NoEditor
  /\ ui = NoUi /\ requests = <<>> /\ batch = NoBatch

NextSolo ==
  \/ OnCommandFullPage(1, "t1")
  \/ OnMessageFullPage(1, "t1")
  \/ FP_Step(1)
  \/ FP_CaptureFails(1)
  \/ FP_CatchStep(1)
  \/ TabCloses("t1")

SpecSolo == InitSolo /\ [][NextSolo]_vars

-----------------------------------------------------------------------------
(* SpecSel: one selection capture in tab "t1".  The selection is drawn in   *)
(* the selection UI and confirmed, or its rectangle arrives in a message    *)
(* from an extension page; the page has three candidate containers, one of  *)
(* which may start or stop being scrollable at any time.                    *)

MinSelectionHeight == 10
MaxSelectionHeight == 13
MinStepHeight == 3
MaxStepHeight == 5

\* where the pointer goes: client coordinates, clear of the viewport's edges
Points == {<<60, 90>>, <<65, 95>>, <<360, 120>>, <<360, 170>>, <<360, 340>>, <<700, 500>>}

MaxRequests == 1

\* e.deltaX, e.deltaY of a wheel event
WheelDeltas == {<<0, 100>>, <<0, -100>>}

SelPage(clientHeight, overflow) ==
  [NewPage(1500, 600, <<1, 1>>, 600, 0, [e \in Elems |-> ""]) EXCEPT
     !.viewportWidth = 800, !.scrollWidth = 800,
     !.box = [clientHeight |-> clientHeight, clientWidth |-> 500, scrollWidth |-> 1000,
              top |-> 40, left |-> 10],
     !.els = [c \in Conts |-> [overflowY |-> overflow[c], scrollHeight |-> 2000,
                               scrollTop |-> 450, scrollLeft |-> 0]]]

InitSel ==
  /\ \E clientHeight \in {100, 400}, overflow \in [Conts -> Overflows] :
       pages = [t \in Tabs |-> IF t = UiTab THEN SelPage(clientHeight, overflow)
                               ELSE BlankPage]
  /\ ops = [o \in {1} |-> IdleOp]
  /\ ClockInit
  /\ crop = NoCrop /\ popup = NoPopup /\ editor = NoEditor
  /\ ui = NoUi /\ requests = <<>> /\ batch = NoBatch

\* The messages an extension page may send for the tab: the rectangle of a selection
\* made in the page's container (with the container's scroll offset or without it), a
\* window selection of any height for any viewport height, and a 5x5 rectangle, with an
\* operation or without.
DirectRequests(p) ==
  LET base == [action |-> "captureSelection", operation |-> "copy", tab |-> UiTab,
               rect |-> [x |-> 20, y |-> 500, width |-> 300, height |-> 80],
               viewportHeight |-> p.viewportHeight, viewportWidth |-> p.viewportWidth,
               dpr |-> p.dpr, containerInfo |-> NoContainerInfo,
               currentScroll |-> NoScroll, surface |-> "window", fromUi |-> FALSE,
               drawn |-> NoRect]
      c == findScrollableContainer(p)
  IN {[base EXCEPT
         !.containerInfo = [present |-> TRUE, scrollHeight |-> p.els[k].scrollHeight,
                            clientHeight |-> p.box.clientHeight,
                            clientWidth |-> p.box.clientWidth,
                            viewportTop |-> p.box.top, viewportLeft |-> p.box.left],
         !.currentScroll = IF sent
                           THEN [present |-> TRUE, x |-> p.els[k].scrollLeft,
                                 y |-> p.els[k].scrollTop]
                           ELSE NoScroll,
         !.surface = k] : k \in {c} \ {"window"}, sent \in BOOLEAN}
     \cup {[base EXCEPT !.rect = [x |-> 0, y |-> 0, width |-> 20, height |-> h],
                        !.viewportHeight = s] :
             h \in MinSelectionHeight..MaxSelectionHeight, s \in MinStepHeight..MaxStepHeight}
     \cup {[base EXCEPT !.rect = [x |-> 0, y |-> 0, width |-> 5, height |-> 5],
                        !.operation = op] : op \in {"none", "copy"}}

\* an extension page sends chrome.runtime.sendMessage({action: 'captureSelection', ...})
MessageArrives ==
  /\ pages[UiTab].open
  /\ ui.mode = "off" /\ requests = <<>> /\ \A o \in DOMAIN ops : Op(o).pc = "idle"
  /\ \E m \in DirectRequests(pages[UiTab]) : requests' = <<m>>
  /\ UNCHANGED ui /\ UiFrame

\* the user opens the selection UI, nothing having been asked of the service worker yet
UserStartsSelection ==
  /\ requests = <<>> /\ \A o \in DOMAIN ops : Op(o).pc = "idle"
  /\ UI_StartSelection

\* the page changes while the selection is drawn or captured
PageChangesDuringSelection ==
  /\ \/ ui.mode \in {"drawing", "adjust"}
     \/ requests # <<>>
     \/ \E o \in DOMAIN ops : Op(o).pc \notin {"idle", "done"}
  /\ \E c \in Conts : PageChanges(UiTab, c)

NextSel ==
  \/ UserStartsSelection
  \/ \E pt \in Points : UI_MouseDown(pt[1], pt[2])
  \/ \E pt \in Points : UI_MouseMove(pt[1], pt[2])
  \/ UI_MouseUp
  \/ UI_ConfirmSelection
  \/ MessageArrives
  \/ HandleSelectionMessage(1)
  \/ S_Step(1)
  \/ S_CaptureFails(1)
  \/ A_CaptureFails(1)
  \/ PageChangesDuringSelection
  \/ TabCloses(UiTab)

SpecSel == InitSel /\ [][NextSel]_vars

-----------------------------------------------------------------------------
(* SpecAdjust: the selection UI alone, on the pages of SpecSel: the user    *)
(* draws, turns the wheel over the overlay, redraws and confirms; the page  *)
(* may change meanwhile.  The requests sent stay in `requests`.             *)

\* the user opens the selection UI again after a selection was sent or dropped
UserOpensOverlay ==
  /\ Len(requests) < MaxRequests
  /\ UI_StartSelection

\* the page changes while the overlay is shown
PageChangesUnderOverlay ==
  /\ ui.mode # "off"
  /\ \E c \in Conts : PageChanges(UiTab, c)

NextAdjust ==
  \/ UserOpensOverlay
  \/ \E pt \in Points : UI_MouseDown(pt[1], pt[2])
  \/ \E pt \in Points : UI_MouseMove(pt[1], pt[2])
  \/ UI_MouseUp
  \/ \E d \in WheelDeltas : UI_Wheel(d[1], d[2])
  \/ UI_ConfirmSelection
  \/ PageChangesUnderOverlay

SpecAdjust == InitSel /\ [][NextAdjust]_vars

-----------------------------------------------------------------------------
(* SpecDetect: the drags of the selection UI on the pages of SpecSel: the   *)
(* user opens the overlay, draws, redraws from adjust mode and confirms,    *)
(* while the page changes which of its elements scroll.                     *)

NextDetect ==
  \/ UserOpensOverlay
  \/ \E pt \in Points : UI_MouseDown(pt[1], pt[2])
  \/ \E pt \in Points : UI_MouseMove(pt[1], pt[2])
  \/ UI_MouseUp
  \/ UI_ConfirmSelection
  \/ PageChangesUnderOverlay

SpecDetect == InitSel /\ [][NextDetect]_vars

-----------------------------------------------------------------------------
(* SpecSelTiles: one multi-tile capture of a window selection, taken alone  *)
(* and without failure, for any selection height, viewport height and dpr;  *)
(* the selection may end where the document ends.                           *)

\* the document's height
TilesScrollHeight == 15

\* where the selection's top lies in the document
TilesSelectionTops == {0, 2}

InitSelTiles ==
  /\ \E s \in MinStepHeight..MaxStepHeight, dpr \in Dprs :
       \E ih \in {(s * dpr[1]) \div dpr[2], RoundDpr(s, dpr)} :
         pages = [t \in Tabs |->
                    IF t = UiTab
                    THEN [NewPage(TilesScrollHeight, s, dpr, ih, 0, [e \in Elems |-> ""])
                            EXCEPT !.viewportWidth = 20, !.scrollWidth = 20]
                    ELSE BlankPage]
  /\ ops = [o \in {1} |-> IdleOp]
  /\ ClockInit
  /\ crop = NoCrop /\ popup = NoPopup /\ editor = NoEditor
  /\ ui = NoUi /\ requests = <<>> /\ batch = NoBatch

\* the 'scrollSelectionComplete' message of a window selection higher than the viewport,
\* as confirmSelection sends it for the page
TileRequestArrives ==
  /\ requests = <<>> /\ \A o \in DOMAIN ops : Op(o).pc = "idle"
  /\ \E h \in MinSelectionHeight..MaxSelectionHeight, y \in TilesSelectionTops :
       LET p == pages[UiTab]
           rect == [x |-> 0, y |-> y, width |-> 20, height |-> h]
       IN /\ y + h <= p.scrollHeight
          /\ requests' =
               <<[action |-> "scrollSelectionComplete", tab |-> UiTab, rect |-> rect,
                  viewportHeight |-> p.viewportHeight, viewportWidth |-> p.viewportWidth,
                  dpr |-> p.dpr, containerInfo |-> NoContainerInfo,
                  currentScroll |-> [present |-> TRUE, x |-> p.scrollX, y |-> p.scrollY],
                  surface |-> "window", operation |-> "none", fromUi |-> TRUE,
                  drawn |-> rect]>>
  /\ UNCHANGED ui /\ UiFrame

\* the steps of captureScrollSelection on its multi-tile path
S_TileStep(o) ==
  \/ S_Enter(o)
  \/ S_GetOriginal(o)
  \/ S_ShowProgress(o)
  \/ S_HideFixed(o)
  \/ S_TileScroll(o)
  \/ S_TileDelay550(o)
  \/ S_TileRead(o)
  \/ S_TempHide(o)
  \/ S_TileDelay30(o)
  \/ S_TileCapture(o)
  \/ S_TempShow(o)
  \/ S_UpdateProgress(o)
  \/ S_RestoreFixed(o)
  \/ S_RestoreScroll(o)
  \/ S_HideProgress(o)

NextSelTiles ==
  \/ TileRequestArrives
  \/ HandleSelectionMessage(1)
  \/ S_TileStep(1)

SpecSelTiles == InitSelTiles /\ [][NextSelTiles]_vars

-----------------------------------------------------------------------------
(* SpecScroll: scrollTo of the content script and scrollPageTo and          *)
(* scrollContainerTo of the service worker, called with any target on a     *)
(* page whose overlay may be in container mode.                             *)

\* the targets of the calls: below, inside and beyond the scrollable ranges
ScrollTargetXs == {0, 300}

ScrollTargetYs == {0 - 100, 700, 3000}

\* content.js scrollTo(x, y): the active container in container mode, else the window
CS_ScrollTo(x, y) ==
  /\ pages[UiTab].open
  /\ pages' = [pages EXCEPT ![UiTab] = ScrollSurfaceTo(@, UiSurface(ui), x, y)]
  /\ UNCHANGED <<ui, requests, crop, popup, editor, ops, batch, sinceShot, minGap>>

\* scrollPageTo(tabId, x, y): window.scrollTo
BG_ScrollPageTo(x, y) ==
  /\ pages[UiTab].open
  /\ pages' = [pages EXCEPT ![UiTab] = ScrollSurfaceTo(@, TargetSurface(@, FALSE), x, y)]
  /\ UNCHANGED <<ui, requests, crop, popup, editor, ops, batch, sinceShot, minGap>>

\* scrollContainerTo(tabId, x, y): the container the injected search finds, else the
\* window
BG_ScrollContainerTo(x, y) ==
  /\ pages[UiTab].open
  /\ pages' = [pages EXCEPT ![UiTab] = ScrollSurfaceTo(@, TargetSurface(@, TRUE), x, y)]
  /\ UNCHANGED <<ui, requests, crop, popup, editor, ops, batch, sinceShot, minGap>>

NextScroll ==
  \/ UserStartsSelection
  \/ \E pt \in Points : UI_MouseDown(pt[1], pt[2])
  \/ \E x \in ScrollTargetXs, y \in ScrollTargetYs : CS_ScrollTo(x, y)
  \/ \E x \in ScrollTargetXs, y \in ScrollTargetYs : BG_ScrollPageTo(x, y)
  \/ \E x \in ScrollTargetXs, y \in ScrollTargetYs : BG_ScrollContainerTo(x, y)

SpecScroll == InitSel /\ [][NextScroll]_vars

-----------------------------------------------------------------------------
(* SpecWidth: selections drawn from near the left edge of a container that  *)
(* may be scrolled horizontally, and their captures, without failure.       *)

\* container.scrollLeft when the overlay opens
WidthScrollLefts == {0, 100}

\* where the pointer goes: 10px and 50px right of the container's left edge, inside the
\* container and right of it
WidthPoints == {<<20, 120>>, <<60, 120>>, <<360, 170>>, <<700, 170>>, <<700, 500>>}

InitWidth ==
  /\ \E clientHeight \in {100, 400}, scrollLeft \in WidthScrollLefts :
       pages = [t \in Tabs |->
                  IF t = UiTab
                  THEN [SelPage(clientHeight, [c \in Conts |-> IF c = "main" THEN "auto" ELSE "visible"])
                          EXCEPT !.els = [c \in Conts |-> [@[c] EXCEPT !.scrollLeft = scrollLeft]]]
                  ELSE BlankPage]
  /\ ops = [o \in {1} |-> IdleOp]
  /\ ClockInit
  /\ crop = NoCrop /\ popup = NoPopup /\ editor = NoEditor
  /\ ui = NoUi /\ requests = <<>> /\ batch = NoBatch

NextWidth ==
  \/ UserStartsSelection
  \/ \E pt \in WidthPoints : UI_MouseDown(pt[1], pt[2])
  \/ \E pt \in WidthPoints : UI_MouseMove(pt[1], pt[2])
  \/ UI_MouseUp
  \/ UI_ConfirmSelection
  \/ MessageArrives
  \/ HandleSelectionMessage(1)
  \/ S_StepNoFailure(1)

SpecWidth == InitWidth /\ [][NextWidth]_vars

-----------------------------------------------------------------------------
(* SpecCancel: the selection overlay alone, with drawings that reach the    *)
(* bottom edge of the viewport, drags and resizes of the selection, and     *)
(* Escape pressed at any moment.                                            *)

\* where the pointer goes: two points clear of the edges and one within 50px of the
\* viewport's bottom edge
CancelPoints == {<<60, 90>>, <<360, 340>>, <<700, 580>>}

NextCancel ==
  \/ UserOpensOverlay
  \/ \E pt \in CancelPoints : UI_MouseDown(pt[1], pt[2])
  \/ \E pt \in CancelPoints : UI_MouseMove(pt[1], pt[2])
  \/ UI_AutoScrollTick
  \/ UI_MouseUp
  \/ UI_SelectionBoxMouseDown
  \/ UI_HandleMouseDown("se")
  \/ UI_Escape

SpecCancel == InitSel /\ [][NextCancel]_vars

-----------------------------------------------------------------------------
(* SpecResize: the selection overlay alone, with small selections drawn     *)
(* clear of the edges, then dragged and resized by every handle, and        *)
(* confirmed.                                                               *)

\* where the pointer goes while drawing: selections of 12x18, 18x27 and 30x45
ResizePoints == {<<100, 100>>, <<112, 118>>, <<130, 145>>}

\* how far the pointer moves between two events while the selection is held
ResizeDeltas == {<<-8, -8>>, <<8, 0>>, <<0, 8>>, <<-8, 8>>}

MaxMoves == 2

NextResize ==
  \/ UserStartsSelection
  \/ \E pt \in ResizePoints : UI_MouseDown(pt[1], pt[2])
  \/ \E pt \in ResizePoints : UI_MouseMove(pt[1], pt[2])
  \/ UI_MouseUp
  \/ UI_SelectionBoxMouseDown
  \/ \E position \in Handles : UI_HandleMouseDown(position)
  \/ \E d \in ResizeDeltas : ui.moves < MaxMoves /\ UI_DragMove(d[1], d[2])
  \/ \E d \in ResizeDeltas : ui.moves < MaxMoves /\ UI_ResizeMove(d[1], d[2])
  \/ UI_ConfirmSelection

SpecResize == InitSel /\ [][NextResize]_vars

\* C35: in the adjust mode the selection is at least 10px wide and high whatever
\* moves and resizes were made, so that a confirmation from the adjust mode always
\* sends its request; and a resize step changes a dimension only to a size of at
\* least minSize, a dimension it leaves alone keeping its edge.
C35_AdjustKeepsMinimum ==
  /\ [](ui.mode = "adjust" => ui.selection.width >= 10 /\ ui.selection.height >= 10)
  /\ [][ui.mode = "adjust" /\ ui'.mode = "off" =>
          Len(requests') = Len(requests) + 1]_vars
  /\ [][ui.grab = "resize" /\ ui'.grab = "resize" =>
          /\ ui'.selection.width # ui.selection.width =>
                ui'.selection.width >= minSize
          /\ ui'.selection.width = ui.selection.width =>
                ui'.selection.left = ui.selection.left
          /\ ui'.selection.height # ui.selection.height =>
                ui'.selection.height >= minSize
          /\ ui'.selection.height = ui.selection.height =>
                ui'.selection.top = ui.selection.top]_vars

\* a selection narrower than minSize is still held by a handle after two moves, its
\* height resized
C35_Witness ==
  /\ ui.mode = "adjust" /\ ui.grab = "resize" /\ ui.moves >= 2
  /\ ui.selection.width < minSize
  /\ ui.selection.height >= minSize /\ ui.selection.height \notin {27, 45}

-----------------------------------------------------------------------------
(* SpecTimer: the selection overlay alone, with drawings that reach the     *)
(* bottom edge of the viewport, ended by the mouse, by Escape, by a         *)
(* confirmation or by a 'startSelection' or 'cancelSelection' message.      *)

\* removeSelectionOverlay(): the listeners and the overlay are removed and the
\* selection flags and the container detection reset; autoScrollInterval is not
\* among them
removeSelectionOverlay(u) == [NoUi EXCEPT !.autoScroll = u.autoScroll]

\* the message listener, 'cancelSelection': removeSelectionOverlay()
UI_OnCancelSelection ==
  /\ pages[UiTab].open /\ pages[UiTab].scriptLoaded
  /\ ui' = removeSelectionOverlay(ui)
  /\ UNCHANGED requests /\ UiFrame

\* the message listener, 'startSelection': createSelectionOverlay(), which removes
\* the overlay there is and creates a new one
UI_OnStartSelection ==
  /\ pages[UiTab].open /\ pages[UiTab].scriptLoaded
  /\ ui' = [removeSelectionOverlay(ui) EXCEPT !.mode = "armed"]
  /\ UNCHANGED requests /\ UiFrame

\* where the pointer goes: a point clear of the edges and one within 50px of the
\* viewport's bottom edge
TimerPoints == {<<60, 90>>, <<700, 580>>}

NextTimer ==
  \/ UserOpensOverlay
  \/ \E pt \in TimerPoints : UI_MouseDown(pt[1], pt[2])
  \/ \E pt \in TimerPoints : UI_MouseMove(pt[1], pt[2])
  \/ UI_AutoScrollTick
  \/ UI_MouseUp
  \/ UI_ConfirmSelection
  \/ UI_Escape
  \/ UI_OnCancelSelection
  \/ Len(requests) < MaxRequests /\ UI_OnStartSelection

SpecTimer == InitSel /\ [][NextTimer]_vars

\* C36: whenever no selection is being drawn (the overlay closed, armed or in the
\* adjust mode), no scroll interval is running.
C36_TimerOnlyWhileDrawing == ui.mode # "drawing" => ~ui.autoScroll.on

-----------------------------------------------------------------------------
(* SpecTwin: the same full-page capture with the progress indicator, started *)
(* by the shortcut on two tabs that show the same page, the content script   *)
(* loaded in "t1" only; no capture call fails and no tab closes.             *)

InitTwin ==
  /\ \E sh \in {2, 4, 5}, dpr \in {<<1, 1>>, <<2, 1>>} :
       pages = [t \in Tabs |->
                  [NewPage(sh, 2, dpr, 2 * dpr[1], IF sh = 2 THEN 0 ELSE 1,
                           [e \in Elems |-> IF e = "sidebar" THEN "hidden" ELSE ""])
                     EXCEPT !.scriptLoaded = (t = "t1")]]
  /\ ops = [o \in {1, 2} |-> IdleOp]
  /\ ClockInit
  /\ crop = NoCrop /\ popup = NoPopup /\ editor = NoEditor
  /\ ui = NoUi /\ requests = <<>> /\ batch = NoBatch

NextTwin ==
  \/ OnCommandFullPage(1, "t1")
  \/ OnCommandFullPage(2, "t2")
  \/ \E o \in {1, 2} : FP_Step(o)

SpecTwin == InitTwin /\ [][NextTwin]_vars

-----------------------------------------------------------------------------
(* SpecFail: one capture taken alone, a full-page capture or a multi-tile   *)
(* selection capture, in which any capture call may reject and the tab may  *)
(* close at any moment, so that any scroll may fail.                        *)

InitFail == InitSolo \/ InitSelTiles

NextFail ==
  \/ NextSolo
  \/ NextSelTiles
  \/ S_CaptureFails(1)
  \/ S_CatchRestoreFixed(1)
  \/ S_CatchHideProgress(1)

SpecFail == InitFail /\ [][NextFail]_vars

-----------------------------------------------------------------------------
(* SpecEntry: every capture entry point, one per behaviour, on two tabs each *)
(* of which may show a restricted URL: a visible-area capture, a full-page   *)
(* capture, a selection message (captureScrollSelection or                   *)
(* captureSelectionArea) for tab "t1", or a batch over both tabs.            *)

\* nothing has been asked of the service worker yet
EntryIdle == batch.pc = "idle" /\ requests = <<>> /\ \A o \in DOMAIN ops : Op(o).pc = "idle"

InitEntry ==
  /\ \E restricted \in [Tabs -> BOOLEAN], clientHeight \in {100, 400}, loaded \in BOOLEAN :
       pages = [t \in Tabs |->
                  [SelPage(clientHeight,
                           [c \in Conts |-> IF c = "main" THEN "auto" ELSE "visible"])
                     EXCEPT !.restricted = restricted[t],
                            !.scriptLoaded = (t = UiTab \/ loaded)]]
  /\ ops = [o \in DOMAIN BatchTabIds |-> IdleOp]
  /\ ClockInit
  /\ crop = NoCrop /\ popup = NoPopup /\ editor = NoEditor
  /\ ui = NoUi /\ requests = <<>> /\ batch = NoBatch

NextEntry ==
  \/ EntryIdle /\ OnCaptureVisible(1, "t1")
  \/ EntryIdle /\ OnCommandFullPage(1, "t1")
  \/ EntryIdle /\ MessageArrives
  \/ EntryIdle /\ \E captureMode \in {"visible", "full"} : B_Start(captureMode)
  \/ V_Enter(1)
  \/ V_Capture(1)
  \/ V_CaptureFails(1)
  \/ HandleSelectionMessage(1)
  \/ S_StepNoFailure(1)
  \/ B_Step
  \/ \E o \in DOMAIN BatchTabIds : FP_Step(o)

SpecEntry == InitEntry /\ [][NextEntry]_vars

-----------------------------------------------------------------------------
(* SpecStitch: the two compositors.  The pages of SpecTiles and of           *)
(* SpecSelTiles, each with its capture operations, so that the finished      *)
(* captures hand both stitchScreenshots and stitchSelectionScreenshots their *)
(* tiles.                                                                    *)

InitStitch == InitTiles \/ InitSelTiles

NextStitch == NextTiles \/ NextSelTiles

SpecStitch == InitStitch /\ [][NextStitch]_vars

------------------------------------------------------------------------------
(* SpecBatch: one batch over two tabs, in either capture mode; a tab may    *)
(* have no content script yet, capture calls may be rejected and the tabs   *)
(* may be closed.                                                           *)

InitBatch ==
  /\ \E sh \in [Tabs -> {2, 4, 6}], loaded \in [Tabs -> BOOLEAN] :
       pages = [t \in Tabs |->
                  [NewPage(sh[t], 2, <<1, 1>>, 2, IF sh[t] = 4 THEN 1 ELSE 0,
                           [e \in Elems |-> ""])
                     EXCEPT !.scriptLoaded = loaded[t]]]
  /\ ops = [o \in DOMAIN BatchTabIds |-> IdleOp]
  /\ ClockInit
  /\ crop = NoCrop /\ popup = NoPopup /\ editor = NoEditor
  /\ ui = NoUi /\ requests = <<>> /\ batch = NoBatch

NextBatch ==
  \/ \E captureMode \in {"visible", "full"} : B_Start(captureMode)
  \/ B_Step
  \/ \E o \in DOMAIN BatchTabIds : FPB_Step(o)
  \/ \E t \in Tabs : TabCloses(t)

SpecBatch == InitBatch /\ [][NextBatch]_vars

-----------------------------------------------------------------------------
(* SpecCrop: one call of cropImage on any rectangle, image and dpr.         *)

MaxCropCoord == 4
MaxCropSize == 4
MaxImageSide == 3

CropRects ==
  [x : -MaxCropCoord..MaxCropCoord, y : -MaxCropCoord..MaxCropCoord,
   width : -1..MaxCropSize, height : -1..MaxCropSize]

CropImages == [width : 1..MaxImageSide, height : 1..MaxImageSide]

InitCrop ==
  /\ \E rect \in CropRects, img \in CropImages, dpr \in Dprs :
       crop = [state |-> "called", rect |-> rect, img |-> img, dpr |-> dpr,
               read |-> [x |-> 0, y |-> 0, w |-> 0, h |-> 0]]
  /\ popup = NoPopup /\ editor = NoEditor
  /\ pages = [t \in Tabs |-> BlankPage]
  /\ ops = [o \in {1} |-> IdleOp]
  /\ ClockInit
  /\ ui = NoUi /\ requests = <<>> /\ batch = NoBatch

\* cropImage runs up to ctx.drawImage(img, srcX, srcY, srcW, srcH, ...)
CropDraws ==
  /\ crop.state = "called"
  /\ crop' = [crop EXCEPT !.state = "drawn",
                          !.read = cropImage(crop.rect, crop.img, crop.dpr)]
  /\ UNCHANGED <<pages, ops, batch, sinceShot, minGap, ui, requests, popup, editor>>

NextCrop == CropDraws

SpecCrop == InitCrop /\ [][NextCrop]_vars

-----------------------------------------------------------------------------
(* Claims *)

RECURSIVE SumHeights(_)
SumHeights(shots) ==
  IF shots = <<>> THEN 0 ELSE Head(shots).height + SumHeights(Tail(shots))

Returned(o) == Op(o).pc = "done"

Succeeded(o) == Returned(o) /\ Op(o).result = "success"

\* no operation is between its start and its return
Quiet == \A o \in DOMAIN ops : Op(o).pc \in {"idle", "done"}

C2_ScrollRestored ==
  \A o \in DOMAIN ops :
    Returned(o) /\ Op(o).kind \in FullKinds /\ Quiet /\ Page(o).open =>
      Page(o).scrollY = Page(o).scrollY0

\* C3: once the capture operations have returned, by success or by failure, every
\* fixed/sticky element has the inline visibility it had before them.
C3_VisibilityRestored ==
  \A t \in Tabs :
    Quiet /\ pages[t].open /\ (\E o \in DOMAIN ops : Returned(o) /\ Op(o).tab = t) =>
      pages[t].vis = pages[t].vis0

\* an operation that has touched the page and has not yet returned
Engaged(o) ==
  /\ Op(o).kind # "none"
  /\ Op(o).pc \notin {"idle", "enter", "getScrollInfo", "hideScrollbar", "done"}

\* C8: no two capture operations are at work on one tab at the same time.
C8_Serialized ==
  \A o1, o2 \in DOMAIN ops :
    o1 # o2 /\ Op(o1).tab = Op(o2).tab => ~(Engaged(o1) /\ Engaged(o2))

\* C5: whatever the rectangle, the dpr and the image (at least 1x1), the rectangle that
\* cropImage reads lies inside the image and is at least 1x1.
C5_CropContained ==
  crop.state = "drawn" =>
    /\ crop.read.x >= 0 /\ crop.read.y >= 0
    /\ crop.read.x + crop.read.w <= crop.img.width
    /\ crop.read.y + crop.read.h <= crop.img.height
    /\ crop.read.w >= 1 /\ crop.read.h >= 1

\* a call whose origin is past the image on both axes and whose size is not positive
C5_Witness ==
  /\ crop.state = "drawn"
  /\ crop.rect.x >= crop.img.width /\ crop.rect.y >= crop.img.height
  /\ crop.rect.width <= 0 /\ crop.rect.height < 0
  /\ crop.dpr = <<3, 2>>
  /\ crop.read.w = 1 /\ crop.read.h = 1

\* the step height of a multi-tile selection capture
StepHeight(op) == IF op.useContainer THEN op.containerInfo.clientHeight ELSE op.viewportHeight

\* C4: a finished multi-tile selection capture of a selection of height H with step
\* height S (H > S > 0) has captured ceil(H/S) tiles, and tile k (from 0) has crop height
\* min(S, H - k*S).
C4_SelectionTiles ==
  \A o \in DOMAIN ops :
    /\ Succeeded(o) /\ Op(o).kind = "scrollSel"
    /\ StepHeight(Op(o)) > 0 /\ Op(o).rect.height > StepHeight(Op(o))
    => LET H == Op(o).rect.height
           S == StepHeight(Op(o))
       IN /\ Len(Op(o).crops) = CeilDiv(H, S)
          /\ Op(o).shots = CeilDiv(H, S)
          /\ \A k \in 0..(Len(Op(o).crops) - 1) :
               Op(o).crops[k + 1].height = Min(S, H - k * S)

\* a finished capture with H = 250 and S = 100: tiles of 100, 100 and 50
C4_Witness ==
  /\ Succeeded(1) /\ Op(1).kind = "scrollSel"
  /\ Op(1).rect.height = 250 /\ StepHeight(Op(1)) = 100
  /\ Len(Op(1).crops) = 3
  /\ Op(1).crops[1].height = 100 /\ Op(1).crops[2].height = 100
  /\ Op(1).crops[3].height = 50

\* the single-viewport path was taken
SingleViewport(op) ==
  op.kind = "scrollSel" /\ op.rect.height <= EffectiveViewportHeight(op)

\* C6: the crop of a finished single-viewport selection capture has its origin at
\* (containerViewportLeft + selection.x - scroll.x, containerViewportTop + selection.y -
\* scroll.y) for a container selection and at (selection.x - scroll.x, selection.y -
\* scroll.y) for a window selection, scroll being the offset of the selection's surface
\* when the capture was made, and it has the selection's width and height.
C6_SingleViewportCrop ==
  \A o \in DOMAIN ops :
    Succeeded(o) /\ SingleViewport(Op(o)) =>
      LET op == Op(o)
          left == IF op.containerInfo.present THEN op.containerInfo.viewportLeft ELSE 0
          top == IF op.containerInfo.present THEN op.containerInfo.viewportTop ELSE 0
      IN op.crops = <<[x |-> left + op.rect.x - op.scrollAtShot.x,
                       y |-> top + op.rect.y - op.scrollAtShot.y,
                       width |-> op.rect.width, height |-> op.rect.height]>>

\* the rectangle is under 10px in width or in height
Degenerate(rect) == rect.width < 10 \/ rect.height < 10

\* C7: a selection under 10px in width or in height never results in an image: the UI
\* sends none to the service worker, and an operation started for one makes no capture
\* call and does not succeed.
C7_NoImageForSmallSelection ==
  /\ \A k \in DOMAIN requests : requests[k].fromUi => ~Degenerate(requests[k].rect)
  /\ \A o \in DOMAIN ops :
       Op(o).kind \in {"scrollSel", "area"} /\ Degenerate(Op(o).rect) =>
         Op(o).shots = 0 /\ Op(o).result # "success"

\* C10: every scroll and every scroll read of a selection capture reaches the surface
\* the selection was drawn in.
C10_OneSurface ==
  \A o \in DOMAIN ops :
    Op(o).kind = "scrollSel" => Op(o).touched \subseteq {Op(o).surface}

\* 1, 2, ..., n: the order in which the compositor's loop takes the tiles
InOrder(n) == [k \in 1..n |-> k]

\* the captured image is the viewport: its height is within one device row of
\* viewportHeight * dpr
ImageIsViewport(p) ==
  /\ p.imageHeight * p.dpr[2] - p.viewportHeight * p.dpr[1] < p.dpr[2]
  /\ p.viewportHeight * p.dpr[1] - p.imageHeight * p.dpr[2] < p.dpr[2]

\* The document row, in device rows times the dpr's denominator, that image row r of a
\* tile captured at scroll offset scrollY shows.
DocRowShown(scrollY, r, dpr) == scrollY * dpr[1] + r * dpr[2]

\* C16: in the composite of a finished full-page capture whose captured images are the
\* viewport, every canvas row y in [0, totalHeight) is painted and shows document row y
\* (to less than one device row).
C16_CompositeRows ==
  \A o \in DOMAIN ops :
    Succeeded(o) /\ Op(o).kind \in FullKinds /\ ImageIsViewport(Page(o)) =>
      \A y \in 0..(Op(o).totalHeight - 1) :
        LET op == Op(o)
            shown == StitchRow(op.screenshots, InOrder(Len(op.screenshots)),
                               op.totalHeight, op.captureViewportHeight, y)
            row == DocRowShown(op.screenshots[shown[1]].scrollY, shown[2], op.dpr)
        IN /\ shown[1] # 0
           /\ row - y * op.dpr[2] < op.dpr[2]
           /\ y * op.dpr[2] - row < op.dpr[2]

\* a step in which a mouse-down on the overlay starts a drawing
DragStarts == ui.mode \in {"armed", "adjust"} /\ ui'.mode = "drawing"

\* C19: the detection a mouse-down runs returns the first element of the selector list,
\* in selector order, that is scrollable on the page as it is then, whether or not the
\* scan would accept another element; only when no selector element is scrollable does it
\* return the element the scan accepts, and the window when the scan accepts none.
C19_SelectorsFirst ==
  [][DragStarts =>
       LET p == pages[UiTab]
           found == ui'.scrollableContainer
           hits == {k \in DOMAIN SelectorOrder : isScrollable(p, SelectorOrder[k])}
       IN /\ hits # {} =>
               \E k \in hits : found = SelectorOrder[k] /\ \A i \in hits : k <= i
          /\ hits = {} =>
               found = IF ScanQualifies(p, "panel") THEN "panel" ELSE "window"]_vars

\* a drawing started on a page, unchanged since, whose second selector element is the
\* only scrollable one of the list while the scan would accept the panel: the selector
\* element was detected
C19_Witness ==
  /\ ui.mode = "drawing" /\ pages[UiTab].changes = 0
  /\ ~isScrollable(pages[UiTab], "stream") /\ isScrollable(pages[UiTab], "main")
  /\ ScanQualifies(pages[UiTab], "panel")
  /\ ui.scrollableContainer = "main"

\* C20: the page is searched for the container at most once between two clearings of
\* the cache; while a selection is drawn or adjusted the cached result and the
\* container in use stay what the mouse-down that started it made them, whatever the
\* page does; and every mouse-down that starts a drawing, the first or a redraw, leaves
\* in the cache the result of one search of the page as it is at that mouse-down.
C20_DetectOncePerDrag ==
  [][/\ ui'.detections <= 1
     /\ (ui.mode \in {"drawing", "adjust"} /\ ui'.mode \in {"drawing", "adjust"}
           /\ ~DragStarts) =>
          /\ ui'.scrollableContainer = ui.scrollableContainer
          /\ ui'.activeContainer = ui.activeContainer
          /\ ui'.detections = ui.detections
     /\ DragStarts =>
          /\ ui'.detections = 1
          /\ ui'.scrollableContainer = findScrollableContainer(pages[UiTab])]_vars

\* a redraw started from adjust mode after the page changed: the cache holds a result
\* other than the one of the selection before
C20_Witness ==
  /\ ui.mode = "drawing" /\ ui.selection.width > 0 /\ pages[UiTab].changes > 0
  /\ ui.detections = 1
  /\ ui.scrollableContainer = "stream"
  /\ ui.scrollableContainer = findScrollableContainer(pages[UiTab])

\* the drawing order 1..n with the entries a and b exchanged
Swapped(n, a, b) == [k \in 1..n |-> IF k = a THEN b ELSE IF k = b THEN a ELSE k]

\* the image heights of the cropped tiles of a selection capture
TileImageHeights(o) ==
  [k \in DOMAIN Op(o).crops |->
     cropImage(Op(o).crops[k], ViewportImage(Page(o)), Op(o).dpr).h]

\* the canvas of stitchScreenshots is the same, row by row, when the screenshots a and b
\* of the finished full-page capture o are drawn in exchanged order
FullPageSwapSame(o, a, b) ==
  LET op == Op(o)
      n == Len(op.screenshots)
  IN \A y \in 0..(op.totalHeight - 1) :
       StitchRow(op.screenshots, Swapped(n, a, b), op.totalHeight,
                 op.captureViewportHeight, y)
         = StitchRow(op.screenshots, InOrder(n), op.totalHeight,
                     op.captureViewportHeight, y)

\* the remainder left for the last tile of a full-page capture
LastRemainder(op) == op.totalHeight - (op.totalScrolls - 1) * op.captureViewportHeight

RECURSIVE CapturedBefore(_, _)
CapturedBefore(crops, k) ==
  IF k = 0 THEN 0 ELSE crops[k].height + CapturedBefore(crops, k - 1)

\* C17: every tile crop of a finished multi-tile selection capture starts, in the
\* coordinates of the surface the selection was drawn in, at the selection row that
\* follows the rows of the tiles before it, and lies inside the part of the surface that
\* was visible when the tile was captured.
C17_TileRows ==
  \A o \in DOMAIN ops :
    Succeeded(o) /\ Op(o).kind = "scrollSel" /\ NeedsScrollCapture(Op(o)) =>
      \A k \in DOMAIN Op(o).crops :
        LET op == Op(o)
            top == IF op.useContainer THEN op.containerInfo.viewportTop ELSE 0
        IN /\ op.crops[k].y - top + op.tileScrolls[k].y
                = op.rect.y + CapturedBefore(op.crops, k - 1)
           /\ op.crops[k].y >= top
           /\ op.crops[k].y + op.crops[k].height <= top + EffectiveViewportHeight(op)

\* C15: once captureScrollSelection has returned, by success or by failure, the scroll
\* offset of the surface the selection was drawn in is the one it had when the operation
\* was started.
C15_SelectionScrollRestored ==
  \A o \in DOMAIN ops :
    Returned(o) /\ Op(o).kind = "scrollSel" /\ Page(o).open =>
      SurfaceScroll(Page(o), Op(o).surface) = Op(o).scrollAtStart

\* the positions of captureFullPage inside its loop over the tiles after the first
InTileLoop(op) ==
  op.pc \in {"scrollTile", "delay550", "hideProgressT", "captureTile", "showProgressT",
             "updateProgressT"}

\* C14: in a full-page capture of more than one tile the first tile is captured with
\* fixed/sticky elements shown, every later tile with all of them hidden, and they stay
\* hidden for as long as the operation is in its loop over the later tiles.
C14_FixedHiddenAfterFirst ==
  \A o \in DOMAIN ops :
    Op(o).kind \in FullKinds /\ Op(o).totalScrolls > 1 /\ Page(o).open =>
      /\ \A k \in DOMAIN Op(o).screenshots : Op(o).screenshots[k].fixedShown <=> (k = 1)
      /\ InTileLoop(Op(o)) => \A e \in Elems : Page(o).vis[e] = "hidden"

\* the image height of each cropped tile: the height cropImage reads
RECURSIVE SumTileImages(_, _, _)
SumTileImages(crops, img, dpr) ==
  IF crops = <<>> THEN 0
  ELSE cropImage(Head(crops), img, dpr).h + SumTileImages(Tail(crops), img, dpr)

\* C13: the image heights of the cropped tiles of a finished multi-tile selection
\* capture, which stitchSelectionScreenshots stacks one below the other, sum to the
\* height of its canvas, round(selectionHeight * dpr).
C13_SelectionTileSum ==
  \A o \in DOMAIN ops :
    Succeeded(o) /\ Op(o).kind = "scrollSel" /\ NeedsScrollCapture(Op(o)) =>
      SumTileImages(Op(o).crops, ViewportImage(Page(o)), Op(o).dpr)
        = RoundDpr(Op(o).rect.height, Op(o).dpr)

\* C12: in a finished single-viewport selection capture the selection's rows lay, when
\* the capture was made, inside the visible part of the surface it was drawn in, and the
\* rectangle cropImage reads from the captured image has the selection's height.
C12_SelectionInsideViewport ==
  \A o \in DOMAIN ops :
    Succeeded(o) /\ SingleViewport(Op(o)) =>
      LET op == Op(o)
          top == IF op.useContainer THEN op.containerInfo.viewportTop ELSE 0
          rowTop == top + op.rect.y - op.scrollAtShot.y
      IN /\ rowTop >= top
         /\ rowTop + op.rect.height <= top + EffectiveViewportHeight(op)
         /\ cropImage(op.crops[1], ViewportImage(Page(o)), op.dpr).h = RoundDpr(op.rect.height, op.dpr)

\* C11: the rectangle the selection UI sends in a capture request is the content-space
\* rectangle that was drawn (the user neither moves nor resizes the selection here),
\* whatever wheel scrolling took place between mouse release and confirmation.
C11_RectAsDrawn ==
  \A k \in DOMAIN requests : requests[k].fromUi => requests[k].rect = requests[k].drawn

\* the time the Chrome rate limit of captureVisibleTab asks for between two calls
MinShotGap == 500

\* C9: between any two consecutive captureVisibleTab calls of a batch, within one tab's
\* capture and from one tab to the next, at least 500 ms of delay() have been awaited.
C9_ShotGap == minGap >= MinShotGap

\* the maximum of the six layout heights of the page's body and root element
MaxLayoutHeight(p) ==
  Max(Max(Max(p.metrics.bodyScrollHeight, p.metrics.htmlScrollHeight),
          Max(p.metrics.bodyOffsetHeight, p.metrics.htmlOffsetHeight)),
      Max(p.metrics.bodyClientHeight, p.metrics.htmlClientHeight))

\* C21: a finished full-page capture has sized its canvas and counted its tiles from the
\* maximum of the scroll, offset and client heights of the body and the root element.
C21_ContentHeightIsMax ==
  \A o \in DOMAIN ops :
    Succeeded(o) /\ Op(o).kind \in FullKinds =>
      /\ Op(o).scrollHeight = MaxLayoutHeight(Page(o))
      /\ Op(o).totalHeight = CeilDpr(MaxLayoutHeight(Page(o)), Page(o).dpr)
      /\ Len(Op(o).screenshots) = CeilDiv(MaxLayoutHeight(Page(o)), Page(o).viewportHeight)

\* the page is as it was before any capture: scroll offset, element visibility,
\* scrollbar and progress indicator
PageUntouched(p) ==
  /\ p.scrollY = p.scrollY0 /\ p.vis = p.vis0 /\ p.hiddenList = NoHiddenList
  /\ ~p.scrollbarHidden /\ p.progress = "none"

\* C22: when getScrollInfo fails, the full-page capture returns CANNOT_GET_SCROLL_INFO
\* in that very step; an operation with that result has recorded no screenshot, has left
\* the page unscrolled, its scrollbar and elements shown and no progress indicator, no
\* capture call has been made, and the operation takes no further step.
C22_UnmeasuredEndsAtOnce ==
  [][\A o \in DOMAIN ops :
       /\ (At(o, FullKinds, "getScrollInfo") /\ ~Page(o).open /\ ops'[o] # ops[o]) =>
             /\ ops'[o].pc = "done" /\ ops'[o].result = "CANNOT_GET_SCROLL_INFO"
             /\ pages' = pages /\ sinceShot' = sinceShot
       /\ ops'[o].result = "CANNOT_GET_SCROLL_INFO" =>
             /\ ops'[o].screenshots = <<>> /\ sinceShot' = -1
             /\ PageUntouched(pages'[ops'[o].tab])
       /\ ops[o].result = "CANNOT_GET_SCROLL_INFO" => ops'[o] = ops[o]]_vars

\* a full-page capture that returned CANNOT_GET_SCROLL_INFO
C22_Witness ==
  /\ Returned(1) /\ Op(1).kind \in FullKinds
  /\ Op(1).result = "CANNOT_GET_SCROLL_INFO"

CatchPcs == {"catchRestoreFixed", "catchRestoreScrollbar", "catchHideProgress"}

\* the operation is in its catch block or has returned {success: false, error: message}
Failing(op) == op.pc \in CatchPcs \/ (op.pc = "done" /\ op.result = "failed")

\* the positions at which the operation scrolls the page or the container
ScrollPcs == {"scrollTop", "scrollTile", "restoreScroll", "tileScroll"}

\* the tiles whose image the operation has got from captureVisibleTab
TilesOf(op) == IF op.kind \in FullKinds THEN Len(op.screenshots) ELSE Len(op.tileScrolls)

\* C24: in a full-page capture and in a multi-tile selection capture every capture call
\* either records one more tile or rejects, and the operation has made as many calls
\* as it has tiles until a call fails; a scroll on a closed tab or a rejected capture
\* call puts the operation in its catch block, from where it makes no capture call and
\* can only return the failure.
C24_NoRetry ==
  [][\A o \in DOMAIN ops :
       /\ ops'[o].shots # ops[o].shots =>
            /\ ops'[o].shots = ops[o].shots + 1
            /\ \/ TilesOf(ops'[o]) = TilesOf(ops[o]) + 1 /\ ~Failing(ops'[o])
               \/ TilesOf(ops'[o]) = TilesOf(ops[o]) /\ Failing(ops'[o])
       /\ ~Failing(ops'[o]) => ops'[o].shots = TilesOf(ops'[o])
       /\ (ops[o].pc \in ScrollPcs /\ ~Page(o).open /\ ops'[o] # ops[o]) =>
            Failing(ops'[o])
       /\ Failing(ops[o]) =>
            /\ Failing(ops'[o])
            /\ ops'[o].shots = ops[o].shots /\ TilesOf(ops'[o]) = TilesOf(ops[o])
            /\ sinceShot' = sinceShot]_vars

\* a capture that recorded a tile, had its next capture call rejected and returned the
\* failure
C24_Witness ==
  \E o \in DOMAIN ops :
    /\ Op(o).pc = "done" /\ Op(o).result = "failed"
    /\ TilesOf(Op(o)) >= 1 /\ Op(o).shots = TilesOf(Op(o)) + 1

\* the viewport height of the surface the selection was drawn in
ActiveViewportHeight(op) ==
  IF op.surface = "window" THEN op.viewportHeight ELSE op.containerInfo.clientHeight

C26_ScrollToIdempotent ==
  [][\A x \in ScrollTargetXs, y \in ScrollTargetYs :
       LET p == pages[UiTab]
           q == pages'[UiTab]
       IN /\ q = ScrollSurfaceTo(p, UiSurface(ui), x, y) /\ ui' = ui =>
               ScrollSurfaceTo(q, UiSurface(ui'), x, y) = q
          /\ q = ScrollSurfaceTo(p, TargetSurface(p, FALSE), x, y) =>
               ScrollSurfaceTo(q, TargetSurface(q, FALSE), x, y) = q
          /\ q = ScrollSurfaceTo(p, TargetSurface(p, TRUE), x, y) =>
               ScrollSurfaceTo(q, TargetSurface(q, TRUE), x, y) = q]_vars

\* the window and the container have both been scrolled, the window to the end of its
\* range by a target beyond it
C26_Witness ==
  LET p == pages[UiTab]
  IN /\ p.scrollY = p.scrollHeight - p.viewportHeight /\ p.scrollX = 0
     /\ \E c \in Conts : p.els[c].scrollTop = 700 /\ p.els[c].scrollLeft = 300

\* the offset of the selection's surface at which the k-th crop's image was captured
ScrollAtCrop(op, k) == IF op.tileScrolls = <<>> THEN op.scrollAtShot ELSE op.tileScrolls[k]

\* C27: every crop of a capture of a container selection ends, counted from the
\* container's left edge at the container's scroll offset of the capture call, at most
\* at the container's clientWidth.
C27_CropWithinClientWidth ==
  \A o \in DOMAIN ops :
    Op(o).kind = "scrollSel" /\ Op(o).surface # "window" =>
      \A k \in DOMAIN Op(o).crops :
        (Op(o).rect.x - ScrollAtCrop(Op(o), k).x) + Op(o).crops[k].width
          <= Op(o).containerInfo.clientWidth

C29_UndeliveredSameOutcome ==
  /\ \A o \in DOMAIN ops :
       /\ Op(o).pc \notin CatchPcs
       /\ Returned(o) => Op(o).result = "success"
  /\ ~pages["t2"].scriptLoaded /\ pages["t2"].progress = "none"
  /\ Op(1).pc = Op(2).pc /\ Op(1).kind = Op(2).kind /\ Op(1).i = Op(2).i =>
       /\ [Op(2) EXCEPT !.tab = Op(1).tab] = Op(1)
       /\ [pages["t2"] EXCEPT !.scriptLoaded = pages["t1"].scriptLoaded,
                               !.progress = pages["t1"].progress] = pages["t1"]

\* the capture on the tab without content script has returned its tiles while the
\* capture on the other tab is running with the indicator shown
C29_Witness ==
  /\ Succeeded(2) /\ Op(2).showPageProgress /\ Len(Op(2).screenshots) >= 2
  /\ pages["t1"].progress = "shown" /\ Op(1).pc \notin {"idle", "done"}

-----------------------------------------------------------------------------
(* SpecOrder: one batch over two tabs of one or two tiles, in either capture *)
(* mode; each tab may show a restricted URL, the content script may be      *)
(* missing, capture calls may be rejected and the tabs may be closed at any  *)
(* moment.                                                                   *)

InitOrder ==
  /\ \E restricted \in [Tabs -> BOOLEAN], sh \in {2, 4}, loaded \in BOOLEAN :
       pages = [t \in Tabs |->
                  [NewPage(sh, 2, <<1, 1>>, 2, 0, [e \in Elems |-> ""])
                     EXCEPT !.restricted = restricted[t], !.scriptLoaded = loaded]]
  /\ ops = [o \in DOMAIN BatchTabIds |-> IdleOp]
  /\ ClockInit
  /\ crop = NoCrop /\ popup = NoPopup /\ editor = NoEditor
  /\ ui = NoUi /\ requests = <<>> /\ batch = NoBatch

NextOrder == NextBatch

SpecOrder == InitOrder /\ [][NextOrder]_vars

\* the results of a batch that stand for a tab that was not captured
BatchFailures == {"failed", "RESTRICTED_PAGE"}

\* the k-th tab of the batch has a failed result: none of a capture, or a capture's
\* {success: false}
TabFailed(k) ==
  /\ k \in DOMAIN batch.results
  /\ \/ batch.results[k] \in BatchFailures
     \/ batch.captureMode = "full" /\ Returned(k) /\ Op(k).result # "success"

\* C30: a batch works on one tab at a time in the order of tabIds (a tab is activated
\* and captured only when every tab before it has its result, and only the current
\* tab's capture runs); each step that records a result appends the current tab's and
\* goes on with the next tab whatever the result is, the last tab's ending the batch; a
\* restricted tab's result is RESTRICTED_PAGE or, closed, a failure, and a finished batch
\* holds one result per tab.
C30_EveryTabRecorded ==
  /\ [](/\ Len(batch.results) = (IF batch.pc = "done" THEN Len(BatchTabIds) ELSE batch.i - 1)
        /\ \A k \in DOMAIN BatchTabIds :
             /\ pages[BatchTabIds[k]].activated \/ Op(k).pc # "idle" =>
                  batch.pc # "idle" /\ k <= batch.i
             /\ Op(k).pc \notin {"idle", "done"} => k = batch.i /\ batch.pc = "fullAwait"
        /\ \A k \in DOMAIN batch.results :
             /\ pages[BatchTabIds[k]].restricted => batch.results[k] \in BatchFailures
             /\ batch.results[k] = "returned" => pages[BatchTabIds[k]].activated
             /\ batch.results[k] = "returned" /\ batch.captureMode = "full" => Returned(k))
  /\ [][batch.pc # "idle" /\ batch' # batch =>
          /\ batch'.i \in {batch.i, batch.i + 1}
          /\ batch'.results # batch.results =>
               /\ Len(batch'.results) = batch.i
               /\ SubSeq(batch'.results, 1, batch.i - 1) = batch.results
               /\ IF batch.i < Len(BatchTabIds)
                  THEN batch'.i = batch.i + 1 /\ batch'.pc = "tabGet"
                  ELSE batch'.i = batch.i /\ batch'.pc = "done"
          /\ batch'.results = batch.results => batch'.i = batch.i]_vars

\* a finished full-page batch whose first tab's capture call was rejected and whose
\* second tab was captured afterwards
C30_Witness ==
  /\ batch.pc = "done" /\ batch.captureMode = "full"
  /\ batch.results = <<"returned", "returned">>
  /\ TabFailed(1) /\ Op(1).shots > 0
  /\ Succeeded(2)

-----------------------------------------------------------------------------
(* SpecLimit: one batch over a task of 1, 50 or 51 tabs of two tiles each,   *)
(* in either capture mode, none or every second of them restricted and      *)
(* every third without content script.                                      *)

\* README: batch capture of up to 50 tabs
BatchLimit == 50

\* the numbers of tabs of the tasks
TaskSizes == {1, BatchLimit, BatchLimit + 1}

\* the tab ids of a task of n tabs
TaskTabIds(n) == [k \in 1 .. n |-> k]

InitLimit ==
  /\ \E every \in {0, 2} :
       pages = [t \in 1 .. BatchLimit + 1 |->
                  [NewPage(4, 2, <<1, 1>>, 2, 0, [e \in Elems |-> ""])
                     EXCEPT !.restricted = (every # 0 /\ t % 2 = 0),
                            !.scriptLoaded = (t % 3 # 0)]]
  /\ ops = [o \in 1 .. BatchLimit + 1 |-> IdleOp]
  /\ ClockInit
  /\ crop = NoCrop /\ popup = NoPopup /\ editor = NoEditor
  /\ ui = NoUi /\ requests = <<>> /\ batch = NoBatch

\* the steps of captureFullPageForBatch whose host calls all resolve
FPB_StepNoFailure(o) ==
  \/ FP_Enter(o)
  \/ FP_GetScrollInfo(o)
  \/ FP_HideScrollbar(o)
  \/ FP_ScrollTop(o)
  \/ FP_Delay300(o)
  \/ FP_CaptureFirst(o)
  \/ FP_HideFixed(o)
  \/ FP_ScrollTile(o)
  \/ FP_Delay550(o)
  \/ FP_CaptureTile(o)
  \/ FP_RestoreFixed(o)
  \/ FP_RestoreScrollbar(o)
  \/ FP_RestoreScroll(o)
  \/ FP_Stitch(o)

NextLimit ==
  \/ \E n \in TaskSizes, captureMode \in {"visible", "full"} :
       B_StartTask(TaskTabIds(n), captureMode)
  \/ B_Step
  \/ \E o \in 1 .. BatchLimit + 1 : FPB_StepNoFailure(o)

SpecLimit == InitLimit /\ [][NextLimit]_vars

\* C31: a batch records the results of at most 50 tabs.
C31_AtMostFiftyTabs == Len(batch.results) <= BatchLimit

\* C32: no capture call of an operation is made while the page displays the progress
\* indicator.
C32_NoIndicatorInTiles == \A o \in DOMAIN ops : ~Op(o).shotShown

\* the width of the canvas of stitchSelectionScreenshots: Math.round(finalCropWidth * dpr)
SelFinalWidth(op) == RoundDpr(FinalCropWidth(op), op.dpr)

\* C33: the cropped tiles of a finished multi-tile selection capture all have the width
\* of the stitched image.
C33_TilesOfFinalWidth ==
  \A o \in DOMAIN ops :
    Succeeded(o) /\ Op(o).kind = "scrollSel" /\ NeedsScrollCapture(Op(o)) =>
      \A k \in DOMAIN Op(o).crops :
        cropImage(Op(o).crops[k], ViewportImage(Page(o)), Op(o).dpr).w = SelFinalWidth(Op(o))

-----------------------------------------------------------------------------
(* SpecZero: one full-page capture or one multi-tile selection capture, of   *)
(* the window or of a container, on a page whose content height, viewport    *)
(* height and container client height may each be 0; every host call         *)
(* resolves.                                                                 *)

\* how many capture calls of one operation are followed
MaxLoopShots == 5

ZeroPage(scrollHeight, viewportHeight, clientHeight) ==
  [SelPage(clientHeight, [c \in Conts |-> IF c = "main" THEN "auto" ELSE "visible"])
     EXCEPT !.scrollHeight = scrollHeight, !.metrics = SameMetrics(scrollHeight),
            !.viewportHeight = viewportHeight, !.imageHeight = viewportHeight,
            !.els = [c \in Conts |-> [@[c] EXCEPT !.scrollTop = 0]]]

InitZero ==
  /\ \E sh \in {0, 1500}, vh \in {0, 600}, ch \in {0, 100} :
       pages = [t \in Tabs |-> IF t = UiTab THEN ZeroPage(sh, vh, ch) ELSE BlankPage]
  /\ ops = [o \in {1} |-> IdleOp]
  /\ ClockInit
  /\ crop = NoCrop /\ popup = NoPopup /\ editor = NoEditor
  /\ ui = NoUi /\ requests = <<>> /\ batch = NoBatch

\* a 'scrollSelectionComplete' message for a selection of the window or of the
\* container, higher than the surface's visible part
ZeroRequestArrives ==
  /\ requests = <<>> /\ \A o \in DOMAIN ops : Op(o).pc = "idle"
  /\ \E surface \in {"window", "main"} :
       LET p == pages[UiTab]
           rect == IF surface = "window"
                   THEN [x |-> 0, y |-> 0, width |-> 300, height |-> 1300]
                   ELSE [x |-> 20, y |-> 500, width |-> 300, height |-> 250]
       IN requests' =
            <<[action |-> "scrollSelectionComplete", tab |-> UiTab, rect |-> rect,
               viewportHeight |-> p.viewportHeight, viewportWidth |-> p.viewportWidth,
               dpr |-> p.dpr,
               containerInfo |->
                 IF surface = "window" THEN NoContainerInfo
                 ELSE [present |-> TRUE, scrollHeight |-> p.els[surface].scrollHeight,
                       clientHeight |-> p.box.clientHeight,
                       clientWidth |-> p.box.clientWidth,
                       viewportTop |-> p.box.top, viewportLeft |-> p.box.left],
               currentScroll |-> [present |-> TRUE, x |-> 0, y |-> 0],
               surface |-> surface, operation |-> "none", fromUi |-> TRUE,
               drawn |-> rect]>>
  /\ UNCHANGED ui /\ UiFrame

NextZero ==
  \/ OnCommandFullPage(1, UiTab)
  \/ ZeroRequestArrives
  \/ HandleSelectionMessage(1)
  \/ Op(1).shots < MaxLoopShots /\ FP_Step(1)
  \/ Op(1).shots < MaxLoopShots /\ S_TileStep(1)

SpecZero == InitZero /\ [][NextZero]_vars

\* C34: the loops of the capture operations end: the number of passes of the full-page
\* loop is finite, and every pass of the selection loop, which runs while capturedHeight
\* is below the selection's height, adds to capturedHeight.
C34_EveryPassAdvances ==
  [][\A o \in DOMAIN ops :
       /\ Op(o).kind \in FullKinds => ops'[o].totalScrolls < Infinity
       /\ Op(o).kind = "scrollSel" /\ Len(ops'[o].crops) > Len(Op(o).crops)
            /\ NeedsScrollCapture(Op(o)) =>
              ops'[o].capturedHeight > Op(o).capturedHeight]_vars

\* C37: no action the service worker sends to a tab is answered {error: 'Unknown
\* action'} by the content script's message listener.
C37_EveryActionHandled == \A t \in Tabs : pages[t].unknown = {}

-----------------------------------------------------------------------------
(* SpecStored: a batch task in chrome.storage.local and the message          *)
(* 'startBatchCapture' delivered twice; every await of                       *)
(* startBatchCaptureFromStorage is a point where the other call may run.     *)
(* batchCaptureAllTabs is followed tab by tab, each tab's capture one step.  *)

Handlers == {1, 2}

\* a call of startBatchCaptureFromStorage: its position, the task it has read and the
\* tabs its batchCaptureAllTabs has captured
IdleHandler == [pc |-> "idle", task |-> NoTask, captured |-> <<>>]

InitStored ==
  /\ pages = [t \in Tabs |-> BlankPage]
  /\ ops = [o \in {1} |-> IdleOp]
  /\ ClockInit
  /\ crop = NoCrop /\ popup = NoPopup /\ editor = NoEditor /\ ui = NoUi /\ requests = <<>>
  /\ \E present \in BOOLEAN, n \in 0 .. Len(BatchTabIds) :
       batch = [NoBatch EXCEPT
         !.stored = IF present THEN [present |-> TRUE, tabIds |-> SubSeq(BatchTabIds, 1, n)]
                    ELSE NoTask,
         !.handlers = [h \in Handlers |-> IdleHandler]]

StoredFrame == UNCHANGED <<pages, ops, crop, popup, editor, ui, requests, sinceShot, minGap>>

\* handleMessage, 'startBatchCapture': startBatchCaptureFromStorage() is called and not
\* awaited; it runs up to its chrome.storage.local.get
H_StartBatchCapture(h) ==
  /\ batch.handlers[h].pc = "idle"
  /\ batch' = [batch EXCEPT !.handlers[h].pc = "get"]
  /\ StoredFrame

\* const data = await chrome.storage.local.get(['batchCaptureTask']); the call returns
\* when there is no task or no tab in it
H_Get(h) ==
  /\ batch.handlers[h].pc = "get"
  /\ LET task == batch.stored
     IN batch' = [batch EXCEPT
          !.handlers[h].task = task,
          !.handlers[h].pc = IF ~task.present \/ Len(task.tabIds) = 0 THEN "returned"
                            ELSE "remove"]
  /\ StoredFrame

\* await chrome.storage.local.remove(['batchCaptureTask'])
H_Remove(h) ==
  /\ batch.handlers[h].pc = "remove"
  /\ batch' = [batch EXCEPT !.stored = NoTask, !.handlers[h].pc = "run"]
  /\ StoredFrame

\* batchCaptureAllTabs(tabIds, ...): the capture of the next tab of the task that was
\* read, and the return after the last
H_CaptureTab(h) ==
  /\ batch.handlers[h].pc = "run"
  /\ LET hd == batch.handlers[h]
     IN batch' = [batch EXCEPT !.handlers[h] =
          IF Len(hd.captured) < Len(hd.task.tabIds)
          THEN [hd EXCEPT !.captured = Append(@, hd.task.tabIds[Len(hd.captured) + 1])]
          ELSE [hd EXCEPT !.pc = "returned"]]
  /\ StoredFrame

NextStored ==
  \/ \E h \in Handlers : H_StartBatchCapture(h)
  \/ \E h \in Handlers : H_Get(h)
  \/ \E h \in Handlers : H_Remove(h)
  \/ \E h \in Handlers : H_CaptureTab(h)

SpecStored == InitStored /\ [][NextStored]_vars

\* C38: of the calls started for one stored task, at most one captures its tabs.
C38_TaskRunsOnce ==
  Cardinality({h \in Handlers : batch.handlers[h].captured # <<>>}) <= 1

-----------------------------------------------------------------------------
(* SpecPopup: the popup's capture buttons, with the service worker's full-   *)
(* page and visible captures of the active tab "t1" behind them; a capture   *)
(* call may reject, the page may be restricted and a reply may fail.  The   *)
(* popup's full-page capture sends no progress to the page, so its steps    *)
(* are those of FPB_Step.                                                   *)

MaxPopupRequests == 2

CaptureModes == {"full", "visible", "selection"}

PopupFrame == UNCHANGED <<crop, pages, ops, batch, sinceShot, minGap, ui, requests, editor>>

\* finally { state.isCapturing = false; setButtonsDisabled(false) }: the request is
\* settled
finally(pp) ==
  [pp EXCEPT !.isCapturing = FALSE, !.disabled = FALSE, !.pc = "idle",
             !.inFlight = @ - 1]

\* catch (error) { hideProgress(); showError(getErrorMessage(error.message)) }
catch(pp) == [pp EXCEPT !.progress = FALSE, !.errorMessage = "thrown"]

\* startCapture that sends its request whatever isCapturing is
P_StartCaptureAnyway(mode) ==
  /\ popup.open
  /\ popup' = [popup EXCEPT
       !.isCapturing = TRUE, !.disabled = TRUE, !.mode = mode,
       !.pc = IF mode = "selection" THEN "awaitSelection" ELSE "awaitCapture",
       !.progress = (mode = "full") \/ @,
       !.inFlight = @ + 1, !.sent = @ + 1,
       !.captures = IF mode = "selection" THEN @ ELSE @ + 1]
  /\ PopupFrame

\* startCapture(mode), the click listener of the three capture buttons, up to its
\* await: nothing while isCapturing is set; otherwise isCapturing is set, the buttons
\* are disabled, the progress overlay is shown for a full-page capture and the request
\* is sent
P_StartCapture(mode) ==
  /\ popup.open
  /\ popup' =
       IF popup.isCapturing THEN [popup EXCEPT !.ignored = TRUE]
       ELSE [popup EXCEPT
               !.isCapturing = TRUE, !.disabled = TRUE, !.mode = mode,
               !.pc = IF mode = "selection" THEN "awaitSelection" ELSE "awaitCapture",
               !.progress = (mode = "full") \/ @,
               !.inFlight = @ + 1, !.sent = @ + 1,
               !.captures = IF mode = "selection" THEN @ ELSE @ + 1]
  /\ PopupFrame

\* await chrome.runtime.sendMessage({action: 'startSelection'}) resolves:
\* window.close(); return; finally
P_SelectionSent ==
  /\ popup.pc = "awaitSelection"
  /\ popup' = [finally(popup) EXCEPT !.open = FALSE]
  /\ PopupFrame

\* the same await rejects: catch, finally
P_SelectionRejected ==
  /\ popup.pc = "awaitSelection"
  /\ popup' = finally(catch(popup))
  /\ PopupFrame

\* the worker is to take up the popup's capture request with operation o
PopupAwaits(o, mode) ==
  /\ popup.pc = "awaitCapture" /\ popup.mode = mode
  /\ popup.captures = o /\ Op(o).pc = "idle"

\* const result = await chrome.runtime.sendMessage({action, ...}) resolves with the
\* operation's result: hideProgress(), then showPreview or showError; finally
P_CaptureResult ==
  /\ popup.pc = "awaitCapture"
  /\ Returned(popup.captures)
  /\ LET result == Op(popup.captures).result
     IN popup' = finally(
          IF result = "success"
          THEN [popup EXCEPT !.progress = FALSE, !.panel = "preview"]
          ELSE [popup EXCEPT !.progress = FALSE, !.errorMessage = result])
  /\ PopupFrame

\* the same await rejects, or resolves with no result object so that result.success
\* throws: catch, finally
P_CaptureThrows ==
  /\ popup.pc = "awaitCapture"
  /\ Returned(popup.captures)
  /\ popup' = finally(catch(popup))
  /\ PopupFrame

InitPopup ==
  /\ \E sh \in {2, 4}, restricted \in BOOLEAN :
       pages = [t \in Tabs |->
                  IF t = UiTab
                  THEN [NewPage(sh, 2, <<1, 1>>, 2, 0, [e \in Elems |-> ""])
                          EXCEPT !.restricted = restricted]
                  ELSE BlankPage]
  /\ ops = [o \in 1 .. MaxPopupRequests |-> IdleOp]
  /\ ClockInit
  /\ crop = NoCrop /\ popup = NoPopup /\ editor = NoEditor
  /\ ui = NoUi /\ requests = <<>> /\ batch = NoBatch

NextPopup ==
  \/ \E mode \in CaptureModes : popup.sent < MaxPopupRequests /\ P_StartCapture(mode)
  \/ P_SelectionSent
  \/ P_SelectionRejected
  \/ P_CaptureResult
  \/ P_CaptureThrows
  \/ \E o \in 1 .. MaxPopupRequests : PopupAwaits(o, "full") /\ OnMessageFullPage(o, UiTab)
  \/ \E o \in 1 .. MaxPopupRequests : PopupAwaits(o, "visible") /\ OnCaptureVisible(o, UiTab)
  \/ \E o \in 1 .. MaxPopupRequests : FPB_Step(o)
  \/ \E o \in 1 .. MaxPopupRequests : V_Enter(o)
  \/ \E o \in 1 .. MaxPopupRequests : V_Capture(o)
  \/ \E o \in 1 .. MaxPopupRequests : V_CaptureFails(o)

SpecPopup == InitPopup /\ [][NextPopup]_vars

\* C39: the popup has at most one request in flight; isCapturing is set and the capture
\* buttons are disabled exactly while one is, so both are cleared when the request is
\* settled, however it is; and no step taken with isCapturing set sends a request.
C39_OneRequestInFlight ==
  /\ [](/\ popup.inFlight <= 1
        /\ popup.isCapturing <=> popup.inFlight = 1
        /\ popup.disabled <=> popup.isCapturing)
  /\ [][popup.isCapturing => popup'.sent = popup.sent]_vars

\* startCapture was called during a request and ignored, and two requests have been
\* settled, one by an error and one by a preview
C39_Witness ==
  /\ popup.ignored /\ popup.sent = 2 /\ popup.inFlight = 0 /\ ~popup.isCapturing
  /\ popup.panel = "preview" /\ popup.errorMessage # "none"

-----------------------------------------------------------------------------
(* SpecEditor: one ImageEditor from its constructor: init, drawings, template *)
(* changes, undo and redo, with more saves than the history holds.           *)

maxHistory == 50

\* the most changes between the loaded image and what the canvas shows
MaxDepth == 52

\* the templates of the two first template buttons
Templates == {"shadow", "rounded"}

EditorFrame ==
  UNCHANGED <<crop, pages, ops, batch, sinceShot, minGap, ui, requests, popup>>

\* _saveHistory that keeps the entries after historyIndex
saveHistoryKeepingRedo(ed) ==
  LET pushed == Append(ed.history, ed.canvas)
  IN IF Len(pushed) > maxHistory
     THEN [ed EXCEPT !.history = Tail(pushed), !.last = "save"]
     ELSE [ed EXCEPT !.history = pushed, !.historyIndex = @ + 1, !.last = "save"]

\* _saveHistory(): the entries after historyIndex are dropped, the canvas is pushed,
\* and either the oldest entry is shifted out or historyIndex moves on
saveHistory(ed) ==
  LET kept == SubSeq(ed.history, 1, ed.historyIndex + 1)
      pushed == Append(kept, ed.canvas)
      dropped == ed.discarded \/ Len(kept) < Len(ed.history)
  IN IF Len(pushed) > maxHistory
     THEN [ed EXCEPT !.history = Tail(pushed), !.last = "save", !.discarded = dropped]
     ELSE [ed EXCEPT !.history = pushed, !.historyIndex = @ + 1, !.last = "save",
                     !.discarded = dropped]

\* init(dataUrl, container): the image is drawn on the canvas and saved
E_Init ==
  /\ ~editor.initialized
  /\ editor' = saveHistory([editor EXCEPT !.initialized = TRUE, !.canvas = 0])
  /\ EditorFrame

\* _onMouseUp(e) at the end of a drawing, and the commit of a text: the canvas is
\* drawn on and saved
E_Draw ==
  /\ editor.initialized
  /\ editor' = saveHistory([editor EXCEPT !.canvas = @ + 1])
  /\ EditorFrame

\* _applyTemplate(template): the template is switched on, or off when it is the
\* current one; the canvas is redrawn and saved
E_ApplyTemplate(template) ==
  /\ editor.initialized
  /\ editor' = saveHistory([editor EXCEPT
       !.currentTemplate = IF @ = template THEN "none" ELSE template,
       !.canvas = @ + 1])
  /\ EditorFrame

\* undo()
E_Undo ==
  /\ editor.initialized
  /\ editor' = IF editor.historyIndex > 0
               THEN [editor EXCEPT !.historyIndex = @ - 1,
                                   !.canvas = editor.history[editor.historyIndex],
                                   !.last = "undo"]
               ELSE editor
  /\ EditorFrame

\* redo()
E_Redo ==
  /\ editor.initialized
  /\ editor' = IF editor.historyIndex < Len(editor.history) - 1
               THEN [editor EXCEPT !.historyIndex = @ + 1,
                                   !.canvas = editor.history[editor.historyIndex + 2],
                                   !.last = "redo"]
               ELSE editor
  /\ EditorFrame

InitEditor ==
  /\ pages = [t \in Tabs |-> BlankPage]
  /\ ops = [o \in {1} |-> IdleOp]
  /\ ClockInit
  /\ crop = NoCrop /\ popup = NoPopup /\ editor = NoEditor
  /\ ui = NoUi /\ requests = <<>> /\ batch = NoBatch

NextEditor ==
  \/ E_Init
  \/ editor.canvas < MaxDepth /\ E_Draw
  \/ \E template \in Templates : editor.canvas < MaxDepth /\ E_ApplyTemplate(template)
  \/ E_Undo
  \/ E_Redo

SpecEditor == InitEditor /\ [][NextEditor]_vars

\* C40: from its initialization on, the editor has 0 <= historyIndex < history.length
\* <= maxHistory; and a step that saves leaves historyIndex at the last entry, which is
\* what the canvas shows, after the entries up to the old historyIndex and none of
\* those that were behind it.
C40_HistoryInvariant ==
  /\ [](editor.initialized =>
          /\ 0 <= editor.historyIndex
          /\ editor.historyIndex < Len(editor.history)
          /\ Len(editor.history) <= maxHistory)
  /\ [][editor' # editor /\ editor'.last = "save" =>
          LET kept == Append(SubSeq(editor.history, 1, editor.historyIndex + 1),
                             editor'.canvas)
          IN /\ editor'.historyIndex = Len(editor'.history) - 1
             /\ editor'.history \in {kept, Tail(kept)}]_vars

\* the history is full, its first entry has been shifted out, a save has dropped
\* entries that could have been redone, and the last step was a save
C40_Witness ==
  /\ Len(editor.history) = maxHistory /\ editor.history[1] > 0
  /\ editor.discarded /\ editor.last = "save"
  /\ editor.historyIndex = maxHistory - 1

====
